---- MODULE Spec2Model ----
(***************************************************************************)
(* EPG-v2 (epg-viewer): the XMLTV ingest, merge and export pipeline, the   *)
(* export cache with background prewarm, and the on-disk mirror store.     *)
(*                                                                         *)
(* Three specifications share this module:                                 *)
(*   Spec        prewarm jobs and gzip export requests racing on the       *)
(*               files of cache/exports (server.js)                        *)
(*   SpecPipe    one export run: stream parse, merge, history backfill,    *)
(*               sort and render (streamXmltv.js, server.js)               *)
(*   SpecMirror  mirrorFetch calls racing on the files of data/mirror      *)
(*               (mirror.js)                                               *)
(*                                                                         *)
(* Time is counted in units of 60 minutes; an XMLTV timestamp is its wall  *)
(* clock digits w (in units) and its numeric offset z (in units).          *)
(***************************************************************************)
EXTENDS Integers, Sequences, FiniteSets, TLC

VARIABLES
  \* ---- SpecPipe: one export run
  pcfg,      \* the request: kind, full flag, the mapping of the playlist channel
  ppc,       \* position of the run
  pnum,      \* programme elements observed so far, over all parsed files
  pparse,    \* parser state of the file being parsed: [sched, total]
  psched,    \* schedules: sequence of [id, list] in insertion order
  pkeys,     \* backfill's existingKeys: sequence of [id, set of start instants]
  psnaps,    \* snapshots of the group still to be parsed by backfill
  pfed,      \* the programme elements of the mirror file that backfill reads again
  pout,      \* programmes written to the export, in order
  \* ---- Spec: prewarm jobs and gzip export requests
  feedOff,   \* numeric offset carried by the timestamps of the upstream feed
  procs,     \* process table: prewarm jobs and gzip export requests
  nprocs,    \* processes started so far
  prewarmJobs, \* key -> job (index into procs), 0 when the key is unknown
  dirFinal,  \* exports/<key>.xml.gz      : key -> inode, 0 when absent
  dirTmp,    \* exports/<key>.xml.gz.tmp  : key -> inode, 0 when absent
  inodes,    \* inode -> sequence of chunks
  schedCache, \* key -> the schedule cache holds the parsed schedules of the key
  \* ---- SpecMirror: the mirror directory
  mprocs,    \* mirrorFetch calls
  mdir,      \* the directory: [cur, tmp : isGz -> inode (0 when absent), snaps]
  mnodes,    \* inode -> sequence of chunks
  mmeta,     \* the metadata file <key>.json of the URL, Null when absent
  mmtime,    \* inode -> second of its last write (mtime)
  mclock,    \* UTC seconds of the wall clock
  \* ---- SpecParse: one streamParseXmltv call
  sopts,     \* the call's arguments: allowedIds and opts.limitProgrammes
  spc,       \* position of the call
  sfed,      \* the elements the parser has closed so far, in order
  sst,       \* parser state: [sched, total] and the channels map
  \* ---- SpecGroups: the parse and merge step of one request
  gcfg,      \* the handler that runs, the mapping of B and whether s1 is enabled
  gpc,       \* position of the request
  gres,      \* per group: the parser state and the state of its promise
  gout,      \* the answer: [status, sched]
  \* ---- SpecShift: one formatXmltvWithZone call
  tin,       \* the arguments
  tout,      \* the value returned, Null before the call
  \* ---- settings
  defaults,  \* the stored defaults: [historyRetentionDays]
  \* ---- SpecCache: the artifact cache of one key
  cmem,      \* the entry of the key in the memory map, Null when absent
  cdisk,     \* the file <key>.json: an entry, "bad" when unparsable, Null when absent
  cnow,      \* Date.now(), milliseconds
  csets,     \* the setCache calls so far: [at, req], in order
  cret,      \* the value the last getCache returned, Null before
  \* ---- SpecStore: the settings store and one request that reads it
  heap,      \* the objects allocated so far, by reference
  root,      \* cached: the references held in its fields mappings, sources, defaults
  held,      \* what the request got from the getters: the references and their contents then
  \* ---- SpecKey: the schedule cache under the request fingerprints
  kmap,      \* the stored mapping of the playlist channel
  kcache,    \* the cache: entries [key, sched]
  kans       \* the last answer: [kind, map, cached, sched], Null before

pipeVars   == <<pcfg, ppc, pnum, pparse, psched, pkeys, psnaps, pfed, pout>>
exportVars == <<feedOff, procs, nprocs, prewarmJobs, dirFinal, dirTmp, inodes, schedCache>>
mirrorVars == <<mprocs, mdir, mnodes, mmeta, mmtime, mclock>>
parseVars  == <<sopts, spc, sfed, sst>>
groupVars  == <<gcfg, gpc, gres, gout>>
shiftVars  == <<tin, tout>>
settingsVars == <<defaults>>
cacheVars  == <<cmem, cdisk, cnow, csets, cret>>
storeVars  == <<heap, root, held>>
keyVars    == <<kmap, kcache, kans>>
vars       == <<pipeVars, exportVars, mirrorVars, parseVars, groupVars, shiftVars,
                settingsVars, cacheVars, storeVars, keyVars>>

-----------------------------------------------------------------------------
(* Bounds of the model *)

\* programme elements observed in one export run, over the mirror file and
\* the snapshots
MaxProgs == 3
\* snapshots of the group's URL
MaxSnaps == 1
\* prewarm jobs and gzip export requests started in one run
MaxProcs == 3
\* mirrorFetch calls for the URL started in one run
MaxFetches == 2
\* versions of the upstream document
MaxBody == 2
\* seconds the wall clock advances in one run
MaxClock == 1
\* SpecParse: elements per file, and the largest finite limitProgrammes
MaxElems == 3
MaxLimit == 1
\* SpecGroups: programme elements per group
MaxGroupProgs == 1
\* SpecCache: setCache calls
MaxSets == 2
\* SpecStore: objects allocated
MaxObjs == 4
\* SpecShift: the largest offsetMinutes of a mapping, in the model's units
MaxShift == 1

-----------------------------------------------------------------------------
(* Generic helpers *)

RECURSIVE SeqSum(_)
SeqSum(s) == IF s = <<>> THEN 0 ELSE Head(s) + SeqSum(Tail(s))

Max(a, b) == IF a > b THEN a ELSE b
Min(a, b) == IF a < b THEN a ELSE b

\* An optional instant: <<>> is null, <<t>> is the instant t.
Null == <<>>
Some(t) == <<t>>

-----------------------------------------------------------------------------
(* XMLTV timestamps *)

\* A well-formed timestamp: digits w, and a numeric offset z when hz.
Ts(w, hz, z) == [k |-> "ts", w |-> w, hz |-> hz, z |-> z]
\* An attribute value that the timestamp grammar does not match.
BadTs  == [k |-> "bad", w |-> 0, hz |-> FALSE, z |-> 0]
\* An absent attribute (null).
NullTs == [k |-> "null", w |-> 0, hz |-> FALSE, z |-> 0]

\* xmltv.js xmltvTimeToIso: a missing offset is read as UTC.
xmltvTimeToIso(x) ==
  IF x.k = "ts" THEN Some(x.w - (IF x.hz THEN x.z ELSE 0)) ELSE Null

\* xmltv.js isoToXmltvTime
isoToXmltvTime(iso) ==
  IF iso = Null THEN NullTs ELSE Ts(iso[1], TRUE, 0)

\* server.js normalizeXmltvOffsetZero: a matching timestamp keeps its digits
\* and gets +0000; anything else is returned unchanged.
normalizeXmltvOffsetZero(x) ==
  IF x.k = "ts" THEN Ts(x.w, TRUE, 0) ELSE x

\* The id normalisation norm(): trim and lowercase, on the model's alphabet.
norm(s) ==
  CASE s = "A" -> "a"
    [] s = "B" -> "b"
    [] s = "X" -> "x"
    [] OTHER -> s

-----------------------------------------------------------------------------
(* Schedules: a JS object id -> list, kept as a sequence of [id, list] in    *)
(* insertion order (the order Object.keys / Object.entries enumerate).      *)

HasKey(m, id) == \E i \in 1..Len(m) : m[i].id = id
KeyIdx(m, id) == CHOOSE i \in 1..Len(m) : m[i].id = id
Get(m, id)    == IF HasKey(m, id) THEN m[KeyIdx(m, id)].list ELSE <<>>
\* if (!schedules[id]) schedules[id] = []; schedules[id].push(...items)
PushAll(m, id, items) ==
  IF HasKey(m, id)
  THEN [m EXCEPT ![KeyIdx(m, id)].list = @ \o items]
  ELSE Append(m, [id |-> id, list |-> items])

-----------------------------------------------------------------------------
(* Array.prototype.sort with the comparator                                 *)
(*   (a,b) => (a.start<b.start ? -1 : a.start>b.start ? 1 : 0)              *)
(* on ISO strings. A null start compares false both ways, so the comparator *)
(* answers 0 for it. The engine sorts an array shorter than 64 elements by  *)
(* finding the initial run and binary insertion of the rest.                *)

Lt(a, b) == a # Null /\ b # Null /\ a[1] < b[1]

cmpStart(a, b) ==
  IF Lt(a.start, b.start) THEN -1 ELSE IF Lt(b.start, a.start) THEN 1 ELSE 0

RECURSIVE RunEnd(_, _, _)
RunEnd(a, desc, idx) ==
  IF idx > Len(a) THEN Len(a)
  ELSE LET o == cmpStart(a[idx], a[idx - 1])
       IN IF (desc /\ o >= 0) \/ (~desc /\ o < 0)
          THEN idx - 1
          ELSE RunEnd(a, desc, idx + 1)

ReverseRange(a, n) ==
  [i \in 1..Len(a) |-> IF i <= n THEN a[n + 1 - i] ELSE a[i]]

RECURSIVE BinPos(_, _, _, _)
BinPos(a, pivot, left, right) ==
  IF left >= right THEN left
  ELSE LET mid == left + ((right - left) \div 2)
       IN IF cmpStart(pivot, a[mid]) < 0
          THEN BinPos(a, pivot, left, mid)
          ELSE BinPos(a, pivot, mid + 1, right)

RECURSIVE BinaryInsertionSort(_, _)
BinaryInsertionSort(a, start) ==
  IF start > Len(a) THEN a
  ELSE LET pivot == a[start]
           left  == BinPos(a, pivot, 1, start)
           b     == [i \in 1..Len(a) |->
                       IF i < left THEN a[i]
                       ELSE IF i = left THEN pivot
                       ELSE IF i <= start THEN a[i - 1]
                       ELSE a[i]]
       IN BinaryInsertionSort(b, start + 1)

sortByStart(list) ==
  IF Len(list) < 2 THEN list
  ELSE LET desc == cmpStart(list[2], list[1]) < 0
           run  == RunEnd(list, desc, 3)
           a    == IF desc THEN ReverseRange(list, run) ELSE list
       IN BinaryInsertionSort(a, run + 1)

\* for (const id of Object.keys(schedules)) schedules[id].sort(...)
sortAll(m) == [i \in 1..Len(m) |-> [m[i] EXCEPT !.list = sortByStart(@)]]

-----------------------------------------------------------------------------
(* streamXmltv.js: the streaming parser, one programme element at a time    *)

\* allowedIds: null (all = TRUE) or a set of ids
AllIds == [all |-> TRUE, ids |-> {}]
Ids(S) == [all |-> FALSE, ids |-> S]

keepAll(allowed) == allowed.all \/ allowed.ids = {}

\* opentag 'programme': const include = keepAll ? false : (chNorm && allowedNorm.has(chNorm))
include(allowed, ch) ==
  IF keepAll(allowed) THEN FALSE
  ELSE ch # "" /\ norm(ch) # "" /\ norm(ch) \in {norm(i) : i \in allowed.ids}

\* the time-window test of pushProgramme
overlaps(startIso, stopIso, from, to) ==
  \/ startIso # Null /\ startIso[1] < to /\ (stopIso = Null \/ stopIso[1] > from)
  \/ stopIso # Null /\ stopIso[1] > from /\ (startIso = Null \/ startIso[1] < to)

\* pushProgramme without its window test (a faulty variant, for comparison)
pushProgramme_nowindow(st, e, origin, allowed, opts) ==
  LET st1 == [st EXCEPT !.total = @ + 1]
  IN IF ~include(allowed, e.channel) THEN st1
     ELSE [st1 EXCEPT !.sched = PushAll(@, e.channel,
             << [start |-> xmltvTimeToIso(e.start), stop |-> xmltvTimeToIso(e.stop),
                 startXmltv |-> e.start, stopXmltv |-> e.stop, origin |-> origin] >>)]

\* closetag 'programme' -> pushProgramme(curProg). st = [sched, total];
\* e = [channel, start, stop] are the element's attributes. origin records
\* which file the programme was read from (it is no field of the program).
pushProgramme(st, e, origin, allowed, opts) ==
  LET st1      == [st EXCEPT !.total = @ + 1]
      startIso == xmltvTimeToIso(e.start)
      stopIso  == xmltvTimeToIso(e.stop)
  IN IF ~include(allowed, e.channel) THEN st1
     ELSE IF ~opts.noWindow /\ ~overlaps(startIso, stopIso, opts.from, opts.to) THEN st1
     ELSE [st1 EXCEPT !.sched = PushAll(@, e.channel,
             << [start |-> startIso, stop |-> stopIso,
                 startXmltv |-> e.start, stopXmltv |-> e.stop, origin |-> origin] >>)]

EmptyParse == [sched |-> <<>>, total |-> 0]

\* end of input: the schedules are sorted per channel and returned
parseResult(st) == sortAll(st.sched)

-----------------------------------------------------------------------------
(* server.js: time shifting                                                 *)

\* A mapping with every field absent.
NoMapping == [sourceId |-> "", epgChannelId |-> "", offsetMinutes |-> 0,
              zoneId |-> "", shiftMode |-> ""]

\* applyOffset(list, offsetMinutes)
applyOffset(list, off) ==
  IF off = 0 THEN list
  ELSE [i \in 1..Len(list) |->
          [list[i] EXCEPT !.start = IF @ = Null THEN @ ELSE Some(@[1] + off),
                          !.stop  = IF @ = Null THEN @ ELSE Some(@[1] + off)]]

\* The numeric offset of the one zone of the model at instant t: it changes
\* (daylight saving) at instant 4.
ZoneOffset(zoneId, t) == IF t < 4 THEN 1 ELSE 2

\* 14*60 minutes
ClampUnits == 14
\* the clamp on the upper side only (a faulty variant, for comparison)
clamp_upper(o) == Min(ClampUnits, o)
clamp(o) == Max(0 - ClampUnits, Min(ClampUnits, o))

\* formatXmltvWithZone(utcIso, originalXmltv, zoneId, offsetMinutes, shiftMode)
formatXmltvWithZone(utcIso, orig, zoneId, addOff, shiftMode) ==
  LET offMin == IF orig.hz THEN orig.z ELSE 0     \* parseXmltvParts(orig).offMin
      iso    == xmltvTimeToIso(orig)
  IN IF shiftMode = "offset"
     THEN IF zoneId # ""
          THEN IF utcIso = Null /\ orig.k # "null"
               THEN IF orig.k # "ts" THEN orig
                    ELSE Ts(orig.w, TRUE, clamp(offMin + addOff))
               ELSE IF utcIso = Null THEN orig
               ELSE LET zo == ZoneOffset(zoneId, utcIso[1])
                    IN Ts(utcIso[1] + zo, TRUE, clamp(zo + addOff))
          ELSE IF orig.k # "null"
               THEN IF orig.k # "ts" THEN orig
                    ELSE Ts(orig.w, TRUE, clamp(offMin + addOff))
               ELSE isoToXmltvTime(utcIso)
     ELSE IF zoneId # ""
          THEN LET i2 == IF utcIso # Null THEN utcIso ELSE iso
               IN IF i2 = Null THEN orig
                  ELSE LET t  == i2[1] + addOff
                           zo == ZoneOffset(zoneId, t)
                       IN Ts(t + zo, TRUE, zo)
          ELSE IF orig.k # "null"
               THEN IF orig.k # "ts" \/ iso = Null THEN orig
                    ELSE Ts(iso[1] + addOff + offMin, TRUE, offMin)
               ELSE isoToXmltvTime(IF utcIso = Null THEN Null ELSE Some(utcIso[1] + addOff))

-----------------------------------------------------------------------------
(* server.js: group planning (MergePlanner)                                 *)

\* A group: its URL, its allowed ids (all = TRUE when g.allowed is null) and
\* idMap, a function from normalised EPG id to playlist id.
HasGroup(gs, url) == \E i \in 1..Len(gs) : gs[i].url = url
GroupIdx(gs, url) == CHOOSE i \in 1..Len(gs) : gs[i].url = url
ensureGroup(gs, url) ==
  IF HasGroup(gs, url) THEN gs
  ELSE Append(gs, [url |-> url, allowed |-> Ids({}), idMap |-> <<>>])

MapSet(f, k, v) == [x \in (DOMAIN f) \cup {k} |-> IF x = k THEN v ELSE f[x]]

\* g.allowed.add(egId); g.idMap.set(norm(egId), plId)
addToGroup(gs, url, egId, plId) ==
  LET g1 == ensureGroup(gs, url)
      i  == GroupIdx(g1, url)
  IN [g1 EXCEPT ![i].allowed = Ids(@.ids \cup {egId}),
                ![i].idMap   = MapSet(@, norm(egId), plId)]

\* sources.find(s => s.id === map.sourceId) over the enabled sources
FindSource(sources, id) ==
  LET hits == {i \in 1..Len(sources) : sources[i].enabled /\ sources[i].id = id}
  IN IF hits = {} THEN 0 ELSE CHOOSE i \in hits : \A j \in hits : i <= j

\* the planning loop with the mapping's EPG channel id used on the default
\* EPG as well (a faulty variant, for comparison)
RECURSIVE planPlaylist_mappedIdOnDefault(_, _, _, _, _, _)
planPlaylist_mappedIdOnDefault(gs, channelIds, i, mappings, sources, epg) ==
  IF i > Len(channelIds) THEN gs
  ELSE LET plId == channelIds[i]
           map  == mappings[plId]
           egId == IF map.epgChannelId # "" THEN map.epgChannelId ELSE plId
           si   == IF map.sourceId # "" THEN FindSource(sources, map.sourceId) ELSE 0
           g2   == IF si # 0 /\ sources[si].url # ""
                   THEN addToGroup(gs, sources[si].url, egId, plId)
                   ELSE IF epg # "" THEN addToGroup(gs, epg, egId, plId)
                   ELSE gs
       IN planPlaylist_mappedIdOnDefault(g2, channelIds, i + 1, mappings, sources, epg)

RECURSIVE planPlaylist(_, _, _, _, _, _)
planPlaylist(gs, channelIds, i, mappings, sources, epg) ==
  IF i > Len(channelIds) THEN gs
  ELSE LET plId == channelIds[i]
           map  == mappings[plId]
           si   == IF map.sourceId # "" THEN FindSource(sources, map.sourceId) ELSE 0
           g2   == IF si # 0 /\ sources[si].url # ""
                   THEN addToGroup(gs, sources[si].url,
                          IF map.epgChannelId # "" THEN map.epgChannelId ELSE plId, plId)
                   ELSE IF epg # "" THEN addToGroup(gs, epg, plId, plId)
                   ELSE gs
       IN planPlaylist(g2, channelIds, i + 1, mappings, sources, epg)

RECURSIVE planAll(_, _, _)
planAll(gs, sources, i) ==
  IF i > Len(sources) THEN gs
  ELSE LET g1 == ensureGroup(gs, sources[i].url)
       IN planAll(IF sources[i].enabled
                  THEN [g1 EXCEPT ![GroupIdx(g1, sources[i].url)].allowed = AllIds]
                  ELSE gs, sources, i + 1)

planGroups(channelIds, mappings, sources, epg) ==
  IF Len(channelIds) > 0
  THEN planPlaylist(<<>>, channelIds, 1, mappings, sources, epg)
  ELSE LET g0 == IF epg # ""
                 THEN [ensureGroup(<<>>, epg) EXCEPT ![1].allowed = AllIds]
                 ELSE <<>>
       IN planAll(g0, sources, 1)

-----------------------------------------------------------------------------
(* server.js: merge of one group's parse result into the schedules          *)

RECURSIVE mergeEntries(_, _, _, _, _, _)
mergeEntries(sched, g, raw, i, mappings, withOffset) ==
  IF i > Len(raw) THEN sched
  ELSE LET epgId == raw[i].id
           list  == raw[i].list
           known == norm(epgId) \in DOMAIN g.idMap
           plId  == IF known THEN g.idMap[norm(epgId)] ELSE ""
           off   == IF withOffset /\ known THEN mappings[plId].offsetMinutes ELSE 0
           s2    == IF g.allowed.all THEN PushAll(sched, epgId, list)
                    ELSE IF ~known THEN sched
                    ELSE PushAll(sched, plId, applyOffset(list, off))
       IN mergeEntries(s2, g, raw, i + 1, mappings, withOffset)

\* /epg.xml.gz and prewarmExportJob apply the mapping's offset while merging
mergeGz(sched, g, raw, mappings) == mergeEntries(sched, g, raw, 1, mappings, TRUE)
\* /epg.xml pushes the lists as parsed
mergeXml(sched, g, raw, mappings) == mergeEntries(sched, g, raw, 1, mappings, FALSE)

-----------------------------------------------------------------------------
(* server.js backfillFromHistory                                            *)

\* existingKeys: id -> Set(start), over the ids of the schedules
RECURSIVE startsOf(_)
startsOf(list) ==
  IF list = <<>> THEN {}
  ELSE (IF Head(list).start = Null THEN {} ELSE {Head(list).start}) \cup startsOf(Tail(list))

existingKeysOf(sched) ==
  [id \in {sched[i].id : i \in 1..Len(sched)} |-> startsOf(Get(sched, id))]

KeysGet(keys, id) == IF id \in DOMAIN keys THEN keys[id] ELSE {}

\* for (const p of list) { if (p.start && set.has(p.start)) continue; push; add }
RECURSIVE backfillList(_, _, _)
backfillList(acc, set, list) ==
  IF list = <<>> THEN [items |-> acc, set |-> set]
  ELSE LET p == Head(list)
       IN IF p.start # Null /\ p.start \in set
          THEN backfillList(acc, set, Tail(list))
          ELSE backfillList(Append(acc, p),
                            IF p.start # Null THEN set \cup {p.start} ELSE set,
                            Tail(list))

\* One snapshot's parse result merged into the schedules; st = [sched, keys].
RECURSIVE backfillEntries(_, _, _, _)
backfillEntries(st, g, raw, i) ==
  IF i > Len(raw) THEN st
  ELSE LET epgId == raw[i].id
           known == g.allowed.all \/ norm(epgId) \in DOMAIN g.idMap
           plId  == IF g.allowed.all THEN epgId
                    ELSE IF known THEN g.idMap[norm(epgId)] ELSE ""
           r     == backfillList(<<>>, KeysGet(st.keys, plId), raw[i].list)
           st2   == IF ~known THEN st
                    ELSE [sched |-> PushAll(st.sched, plId, r.items),
                          keys  |-> MapSet(st.keys, plId, r.set)]
       IN backfillEntries(st2, g, raw, i + 1)

\* const pastTo = Math.min(windowToMs, now);
\* if (!(Number.isFinite(windowFromMs) && windowFromMs < pastTo)) return;
backfillRuns(from, to, now) == from < Min(to, now)

-----------------------------------------------------------------------------
(* server.js: the programme loops of the three builders                     *)

\* start / stop of one programme before the zero-offset rule
shiftedStamp(iso, orig, map) ==
  LET off  == map.offsetMinutes
      mode == IF map.shiftMode = "" THEN "wall" ELSE map.shiftMode
      mustRewrite == off # 0 \/ (map.zoneId # "" /\ mode = "wall")
  IN IF ~mustRewrite /\ orig.k # "null" THEN orig
     ELSE formatXmltvWithZone(iso, orig, map.zoneId, off, mode)

\* if (FORCE_ZERO_OFFSET) { start = normalize(start); if (stop) stop = normalize(stop); }
Emitted(id, p, start, stop) ==
  [channel |-> id, start |-> start, stop |-> stop, p |-> p]

\* /epg.xml.gz (lines 1061-1072): start and stop are written as shifted
renderGz(id, p, map) ==
  Emitted(id, p, shiftedStamp(p.start, p.startXmltv, map),
                 shiftedStamp(p.stop, p.stopXmltv, map))

\* prewarmExportJob (lines 366-378)
renderPrewarm(id, p, map) ==
  Emitted(id, p, normalizeXmltvOffsetZero(shiftedStamp(p.start, p.startXmltv, map)),
                 normalizeXmltvOffsetZero(shiftedStamp(p.stop, p.stopXmltv, map)))

\* /epg.xml (lines 1230-1242)
renderXml(id, p, map) ==
  Emitted(id, p, normalizeXmltvOffsetZero(shiftedStamp(p.start, p.startXmltv, map)),
                 normalizeXmltvOffsetZero(shiftedStamp(p.stop, p.stopXmltv, map)))

renderProgramme(kind, id, p, map) ==
  CASE kind = "gz"      -> renderGz(id, p, map)
    [] kind = "prewarm" -> renderPrewarm(id, p, map)
    [] OTHER            -> renderXml(id, p, map)

RECURSIVE renderList(_, _, _, _)
renderList(kind, id, list, map) ==
  IF list = <<>> THEN <<>>
  ELSE <<renderProgramme(kind, id, Head(list), map)>> \o renderList(kind, id, Tail(list), map)

\* for (const id of orderedIds) for (const p of schedules[id] || []) ...
RECURSIVE renderAll(_, _, _, _, _)
renderAll(kind, orderedIds, i, sched, mappings) ==
  IF i > Len(orderedIds) THEN <<>>
  ELSE renderList(kind, orderedIds[i], Get(sched, orderedIds[i]), mappings[orderedIds[i]])
       \o renderAll(kind, orderedIds, i + 1, sched, mappings)

-----------------------------------------------------------------------------
(* SpecPipe: one export run over the playlist <<"A">> and the default EPG   *)
(* URL, whose mirror file and snapshots are read one programme element at a *)
(* time.                                                                    *)

PPlaylist == <<"A">>
PEpgUrl   == "u1"
PMappings == [id \in {"A"} |-> pcfg.map]
PGroup    == planGroups(PPlaylist, PMappings, <<>>, PEpgUrl)[1]

\* The programme elements a feed may hold.
PStarts == {BadTs, Ts(1, FALSE, 0), Ts(3, FALSE, 0), Ts(4, TRUE, 1),
            Ts(4, FALSE, 0), Ts(6, FALSE, 0)}
\* stop is start plus one unit; the first start may also lack its stop, and
\* the unparseable start comes with a stop inside the window or with none
PStops(start) ==
  IF start.k # "ts" THEN {NullTs, Ts(4, FALSE, 0)}
  ELSE IF start.w = 1 THEN {NullTs, Ts(2, FALSE, 0)}
  ELSE {Ts(start.w + 1, start.hz, start.z)}
\* programmes of the mapped channel, and one of a channel outside the playlist
PElems ==
  UNION {{[channel |-> "a", start |-> s, stop |-> t] : t \in PStops(s)} : s \in PStarts}
  \cup {[channel |-> "x", start |-> Ts(3, FALSE, 0), stop |-> Ts(4, FALSE, 0)]}

\* The mappings of the playlist channel: none, an offset in wall mode, a zone
\* in wall mode, both, and an offset in offset mode.
PMaps ==
  {NoMapping,
   [NoMapping EXCEPT !.offsetMinutes = 1],
   [NoMapping EXCEPT !.zoneId = "Z1"],
   [NoMapping EXCEPT !.offsetMinutes = 1, !.zoneId = "Z1", !.shiftMode = "wall"],
   [NoMapping EXCEPT !.offsetMinutes = 1, !.shiftMode = "offset"]}

\* kind and full flag; /epg.xml has no full export
PKinds == {<<"gz", FALSE>>, <<"gz", TRUE>>, <<"xml", FALSE>>,
           <<"prewarm", FALSE>>, <<"prewarm", TRUE>>}

\* the parse of the current mirror runs with noWindow for a full export
PNoWindow == pcfg.full
POpts  == [noWindow |-> PNoWindow, from |-> pcfg.from, to |-> pcfg.to]
\* backfill parses with { windowFromMs, windowToMs: pastTo }
PSnapOpts == [noWindow |-> FALSE, from |-> pcfg.from, to |-> Min(pcfg.to, pcfg.now)]

\* d.historyBackfill !== false && !isFull, and the guard of backfillFromHistory
PBackfills == ~pcfg.full /\ backfillRuns(pcfg.from, pcfg.to, pcfg.now)

\* cur: the URL of the group was never rotated, so that the mirror directory
\* holds its current file and no snapshot. listSnapshots lists every name
\* "<key>.*" that ends in .xml or .xmltv.gz (part_004 line 71): it returns
\* that current file, and backfill parses it a second time.
InitPipe ==
  /\ \E k \in PKinds, m \in PMaps, n \in {1, 4}, c \in BOOLEAN :
       /\ pcfg = [kind |-> k[1], full |-> k[2], from |-> 2, to |-> 5, now |-> n, map |-> m,
                  cur |-> c]
       /\ c => psnaps = 1
  /\ pfed = <<>>
  /\ ppc = "parse"
  /\ pnum = 0
  /\ pparse = EmptyParse
  /\ psched = <<>>
  /\ pkeys = <<>>
  /\ psnaps \in 0..MaxSnaps
  /\ pout = <<>>

\* after merge (and the sort that follows it): backfill, which sorts again
\* at its end also when there is no snapshot, or straight to render
AfterMerge(sched) ==
  IF PBackfills /\ psnaps > 0
  THEN /\ ppc' = "snap"
       /\ psched' = sched
       /\ pkeys' = existingKeysOf(sched)
  ELSE /\ ppc' = "render"
       /\ psched' = IF PBackfills THEN sortAll(sched) ELSE sched
       /\ pkeys' = pkeys

\* the parser closes one programme element of the mirror file
PipeProgramme(e) ==
  /\ ppc = "parse"
  /\ pnum < MaxProgs
  /\ pparse' = pushProgramme(pparse, e, "mirror", PGroup.allowed, POpts)
  /\ pnum' = pnum + 1
  /\ pfed' = IF pcfg.cur THEN Append(pfed, e) ELSE pfed
  /\ UNCHANGED <<pcfg, ppc, psched, pkeys, psnaps, pout>>
  /\ UNCHANGED <<exportVars, mirrorVars, parseVars, groupVars, shiftVars, settingsVars, cacheVars, storeVars, keyVars>>

\* end of the mirror file: merge, sort, and backfill's set-up
PipeMerge ==
  /\ ppc = "parse"
  /\ LET raw == parseResult(pparse)
         merged == IF pcfg.kind = "xml"
                   THEN mergeXml(<<>>, PGroup, raw, PMappings)
                   ELSE mergeGz(<<>>, PGroup, raw, PMappings)
     IN AfterMerge(sortAll(merged))
  /\ pparse' = EmptyParse
  /\ UNCHANGED <<pcfg, pnum, psnaps, pfed, pout>>
  /\ UNCHANGED <<exportVars, mirrorVars, parseVars, groupVars, shiftVars, settingsVars, cacheVars, storeVars, keyVars>>

\* what the file holds where its parse is rejected
Malformed == [channel |-> "", start |-> NullTs, stop |-> NullTs]

\* the parse of the mirror file is rejected (bad gzip, malformed XML):
\* Promise.allSettled keeps going and the group contributes nothing
PipeParseFails ==
  /\ ppc = "parse"
  /\ AfterMerge(<<>>)
  /\ pparse' = EmptyParse
  /\ pfed' = IF pcfg.cur THEN Append(pfed, Malformed) ELSE pfed
  /\ UNCHANGED <<pcfg, pnum, psnaps, pout>>
  /\ UNCHANGED <<exportVars, mirrorVars, parseVars, groupVars, shiftVars, settingsVars, cacheVars, storeVars, keyVars>>

\* the parser closes one programme element of the snapshot being read; of
\* the current file read again, the elements are those read before
PipeSnapProgramme(e) ==
  /\ ppc = "snap"
  /\ IF pcfg.cur
     THEN pfed # <<>> /\ e = Head(pfed) /\ pfed' = Tail(pfed)
     ELSE pnum < MaxProgs /\ pfed' = pfed
  /\ pparse' = pushProgramme(pparse, e, "snapshot", PGroup.allowed, PSnapOpts)
  /\ pnum' = pnum + 1
  /\ UNCHANGED <<pcfg, ppc, psched, pkeys, psnaps, pout>>
  /\ UNCHANGED <<exportVars, mirrorVars, parseVars, groupVars, shiftVars, settingsVars, cacheVars, storeVars, keyVars>>

\* end of a snapshot (ok) or a rejected parse of it (the catch {} skips it);
\* after the last snapshot every list is sorted
PipeSnapEnd(ok) ==
  /\ ppc = "snap"
  /\ (pcfg.cur /\ ok) => pfed = <<>>
  /\ LET raw == IF ok THEN parseResult(pparse) ELSE <<>>
         st  == backfillEntries([sched |-> psched, keys |-> pkeys], PGroup, raw, 1)
     IN /\ pkeys' = st.keys
        /\ IF psnaps > 1
           THEN /\ psched' = st.sched
                /\ ppc' = "snap"
           ELSE /\ psched' = sortAll(st.sched)
                /\ ppc' = "render"
  /\ psnaps' = psnaps - 1
  /\ pparse' = EmptyParse
  /\ UNCHANGED <<pcfg, pnum, pfed, pout>>
  /\ UNCHANGED <<exportVars, mirrorVars, parseVars, groupVars, shiftVars, settingsVars, cacheVars, storeVars, keyVars>>

\* the channel and programme loops write the export
PipeRender ==
  /\ ppc = "render"
  /\ pout' = renderAll(pcfg.kind, PPlaylist, 1, psched, PMappings)
  /\ ppc' = "done"
  /\ UNCHANGED <<pcfg, pnum, pparse, psched, pkeys, psnaps, pfed>>
  /\ UNCHANGED <<exportVars, mirrorVars, parseVars, groupVars, shiftVars, settingsVars, cacheVars, storeVars, keyVars>>

NextPipe ==
  \/ \E e \in PElems : PipeProgramme(e)
  \/ PipeMerge
  \/ PipeParseFails
  \/ \E e \in PElems : PipeSnapProgramme(e)
  \/ \E ok \in BOOLEAN : PipeSnapEnd(ok)
  \/ PipeRender

-----------------------------------------------------------------------------
(* Spec: prewarm jobs (POST /api/export/prewarm, prewarmExportJob) and gzip  *)
(* export requests (GET /epg.xml.gz) over the files of cache/exports.        *)
(* A file is an inode; a path names an inode; an open stream keeps its inode *)
(* when the path is renamed or unlinked.                                     *)

\* The export key 'EPG_' + sha1hex(stableStringify(keyObj)): with the mirror
\* signatures, the playlist and the mappings fixed, keyObj varies in full and
\* in windowFromMs / windowToMs, which are numbers (win) or null.
\* /epg.xml.gz: windowFromMs = isFull ? null : ...
GzKey(full) == [full |-> full, win |-> ~full]
\* prewarmExportJob: windowFromMs = todayUTC - pastDays * DAY, full or not
PrewarmKey(full) == [full |-> full, win |-> TRUE]
Keys == [full : BOOLEAN, win : BOOLEAN]
NoKey == [full |-> FALSE, win |-> FALSE]

\* The assembled schedule of the one playlist channel: two programmes whose
\* feed timestamps carry the numeric offset feedOff.
FeedList ==
  << [start |-> Some(3 - feedOff), stop |-> Some(4 - feedOff),
      startXmltv |-> Ts(3, TRUE, feedOff), stopXmltv |-> Ts(4, TRUE, feedOff),
      origin |-> "mirror"],
     [start |-> Some(4 - feedOff), stop |-> Some(5 - feedOff),
      startXmltv |-> Ts(4, TRUE, feedOff), stopXmltv |-> Ts(5, TRUE, feedOff),
      origin |-> "mirror"] >>

\* The artifact a builder writes, one chunk per programme.
Artifact(kind) == renderList(kind, "A", FeedList, NoMapping)

\* bytes of a file, by the chunk size of the gzip stream
ChunkBytes == 16 * 1024
FileSize(content) == Len(content) * ChunkBytes
\* st.size > 100
MinGoodSize == 100

\* a write of chunk c at stream position pos (0-based) of a file
Hole == [channel |-> "", start |-> NullTs, stop |-> NullTs, p |-> <<>>]
WriteAt(content, pos, c) ==
  [i \in 1..Max(Len(content), pos + 1) |->
     IF i = pos + 1 THEN c
     ELSE IF i <= Len(content) THEN content[i]
     ELSE Hole]

\* fs.createWriteStream(path) opens with flag 'w': the file the path names is
\* truncated, or a new file is created
OpenW(dir, key) ==
  IF dir[key] # 0
  THEN [ino |-> dir[key], dir |-> dir, nodes |-> [inodes EXCEPT ![dir[key]] = <<>>]]
  ELSE [ino |-> Len(inodes) + 1, dir |-> [dir EXCEPT ![key] = Len(inodes) + 1],
        nodes |-> Append(inodes, <<>>)]

\* a faulty variant: the status the status endpoint gives for an unknown key
InitialStatus_idle == "idle"
\* the job's first status (line 1263)
InitialStatus == "starting"

NewProc(type, full) ==
  [type |-> type, full |-> full, pc |-> "", status |-> "none", urlFull |-> FALSE,
   key |-> NoKey, ino |-> 0, pos |-> 0, resp |-> <<>>,
   live |-> {}, past |-> {}, parsed |-> FALSE]

Terminal(pr) == pr.pc \in {"done", "failed", "killed"}
\* the prewarm jobs in flight, and the export requests already answered
Live == {i \in 1..nprocs : procs[i].type = "prewarm" /\ ~Terminal(procs[i])}
Past == {i \in 1..nprocs : procs[i].type = "gz" /\ procs[i].pc = "done"}

InitExport ==
  /\ feedOff \in {0, 1}
  /\ procs = <<>>
  /\ nprocs = 0
  /\ prewarmJobs = [k \in Keys |-> 0]
  /\ dirFinal = [k \in Keys |-> 0]
  /\ dirTmp = [k \in Keys |-> 0]
  /\ inodes = <<>>
  /\ schedCache = [k \in Keys |-> FALSE]

\* POST /api/export/prewarm: the job record is stored under its temporary
\* key (the index of the job here: the random PRE_ keys are taken to be
\* distinct) and the background task starts
PrewarmPost(full) ==
  /\ nprocs < MaxProcs
  /\ procs' = Append(procs, [NewProc("prewarm", full) EXCEPT
                !.pc = "playlist", !.status = InitialStatus, !.urlFull = full,
                !.live = Live])
  /\ nprocs' = nprocs + 1
  /\ UNCHANGED <<schedCache, feedOff, prewarmJobs, dirFinal, dirTmp, inodes>>
  /\ UNCHANGED <<pipeVars, mirrorVars, parseVars, groupVars, shiftVars, settingsVars, cacheVars, storeVars, keyVars>>

\* the job fails: the catch of the background task
JobFails(j) ==
  /\ procs[j].pc \in {"playlist", "mirror"}
  /\ procs' = [procs EXCEPT ![j].status = "error", ![j].pc = "failed"]
  /\ UNCHANGED <<schedCache, feedOff, nprocs, prewarmJobs, dirFinal, dirTmp, inodes>>

\* prewarmExportJob up to its first await on the mirror: the playlist is
\* loaded and the job is marked running (line 289)
PrewarmPlaylist(j) ==
  /\ procs[j].type = "prewarm" /\ procs[j].pc = "playlist"
  /\ procs' = [procs EXCEPT ![j].status = "running", ![j].pc = "mirror"]
  /\ UNCHANGED <<schedCache, feedOff, nprocs, prewarmJobs, dirFinal, dirTmp, inodes>>
  /\ UNCHANGED <<pipeVars, mirrorVars, parseVars, groupVars, shiftVars, settingsVars, cacheVars, storeVars, keyVars>>

\* fetchText(pl) or a mirrorFetch rejects
PrewarmFails(j) ==
  /\ procs[j].type = "prewarm"
  /\ JobFails(j)
  /\ UNCHANGED <<pipeVars, mirrorVars, parseVars, groupVars, shiftVars, settingsVars, cacheVars, storeVars, keyVars>>

\* the mirrors are fetched: the key is computed and fs.existsSync(exportPath)
\* decides between 'Ready (cached)' and a build; a build parses, merges and
\* backfills (reading no export file), calls fs.createWriteStream(exportPath)
\* and hands the whole document to the gzip stream (lines 292-381)
PrewarmMirrored(j) ==
  /\ procs[j].type = "prewarm" /\ procs[j].pc = "mirror"
  /\ LET key == PrewarmKey(procs[j].full)
     IN IF dirFinal[key] # 0
        THEN /\ procs' = [procs EXCEPT ![j].key = key, ![j].status = "done",
                            ![j].urlFull = FALSE, ![j].pc = "done"]
             /\ prewarmJobs' = [prewarmJobs EXCEPT ![key] = j]
        ELSE /\ procs' = [procs EXCEPT ![j].key = key, ![j].pc = "open"]
             /\ UNCHANGED prewarmJobs
  /\ UNCHANGED <<schedCache, feedOff, nprocs, dirFinal, dirTmp, inodes>>
  /\ UNCHANGED <<pipeVars, mirrorVars, parseVars, groupVars, shiftVars, settingsVars, cacheVars, storeVars, keyVars>>

\* the write stream opens exports/<key>.xml.gz itself
PrewarmOpen(j) ==
  /\ procs[j].type = "prewarm" /\ procs[j].pc = "open"
  /\ LET o == OpenW(dirFinal, procs[j].key)
     IN /\ dirFinal' = o.dir
        /\ inodes' = o.nodes
        /\ procs' = [procs EXCEPT ![j].ino = o.ino, ![j].pos = 0, ![j].pc = "write"]
  /\ UNCHANGED <<schedCache, feedOff, nprocs, prewarmJobs, dirTmp>>
  /\ UNCHANGED <<pipeVars, mirrorVars, parseVars, groupVars, shiftVars, settingsVars, cacheVars, storeVars, keyVars>>

\* one chunk of the gzip stream reaches the file of a builder
WriteChunk(j) ==
  /\ procs[j].pc = "write"
  /\ procs[j].pos < Len(Artifact(procs[j].type))
  /\ inodes' = [inodes EXCEPT ![procs[j].ino] =
                  WriteAt(@, procs[j].pos, Artifact(procs[j].type)[procs[j].pos + 1])]
  /\ procs' = [procs EXCEPT ![j].pos = @ + 1]
  /\ UNCHANGED <<schedCache, feedOff, nprocs, prewarmJobs, dirFinal, dirTmp>>
  /\ UNCHANGED <<pipeVars, mirrorVars, parseVars, groupVars, shiftVars, settingsVars, cacheVars, storeVars, keyVars>>

\* ws 'finish': the job is done (line 383) and the background task stores it
\* under the final key too (lines 1271-1275)
PrewarmFinish(j) ==
  /\ procs[j].type = "prewarm" /\ procs[j].pc = "write"
  /\ procs[j].pos = Len(Artifact("prewarm"))
  /\ procs' = [procs EXCEPT ![j].status = "done", ![j].urlFull = FALSE, ![j].pc = "done"]
  /\ prewarmJobs' = [prewarmJobs EXCEPT ![procs[j].key] = j]
  /\ UNCHANGED <<schedCache, feedOff, nprocs, dirFinal, dirTmp, inodes>>
  /\ UNCHANGED <<pipeVars, mirrorVars, parseVars, groupVars, shiftVars, settingsVars, cacheVars, storeVars, keyVars>>

\* a write to the file of a builder fails: the write stream emits 'error',
\* which has no listener in either builder, and the server process goes down
\* with every job and request in flight; the files stay as they are and the
\* restarted server has no job record
WriteError(j) ==
  /\ procs[j].pc = "write"
  /\ procs' = [i \in 1..nprocs |->
                 IF Terminal(procs[i]) THEN procs[i] ELSE [procs[i] EXCEPT !.pc = "killed"]]
  /\ prewarmJobs' = [k \in Keys |-> 0]
  /\ UNCHANGED <<schedCache, feedOff, nprocs, dirFinal, dirTmp, inodes>>
  /\ UNCHANGED <<pipeVars, mirrorVars, parseVars, groupVars, shiftVars, settingsVars, cacheVars, storeVars, keyVars>>

\* GET /epg.xml.gz arrives
GzGet(full) ==
  /\ nprocs < MaxProcs
  /\ procs' = Append(procs, [NewProc("gz", full) EXCEPT
                !.pc = "prepare", !.past = Past])
  /\ nprocs' = nprocs + 1
  /\ UNCHANGED <<schedCache, feedOff, prewarmJobs, dirFinal, dirTmp, inodes>>
  /\ UNCHANGED <<pipeVars, mirrorVars, parseVars, groupVars, shiftVars, settingsVars, cacheVars, storeVars, keyVars>>

\* a mirrorFetch rejects: the request is answered 500
GzFails(j) ==
  /\ procs[j].type = "gz" /\ procs[j].pc = "prepare"
  /\ procs' = [procs EXCEPT ![j].pc = "failed"]
  /\ UNCHANGED <<schedCache, feedOff, nprocs, prewarmJobs, dirFinal, dirTmp, inodes>>
  /\ UNCHANGED <<pipeVars, mirrorVars, parseVars, groupVars, shiftVars, settingsVars, cacheVars, storeVars, keyVars>>

\* existingGood (line 1015)
existingGood(key) ==
  dirFinal[key] # 0 /\ FileSize(inodes[dirFinal[key]]) > MinGoodSize

\* the mirrors are fetched and the key is computed; the schedules come from
\* getCache(cacheKey) or, on a miss, from stream-parsing every group's mirror,
\* merge, sort and backfill, and are stored with setCache for ten minutes,
\* longer than the runs followed here (lines 954-994; parsed records that
\* the sources were parsed). Then the
\* artifact is streamed if existingGood, else a build starts (lines
\* 1010-1022)
GzPrepared(j) ==
  /\ procs[j].type = "gz" /\ procs[j].pc = "prepare"
  /\ LET key == GzKey(procs[j].full)
     IN /\ IF existingGood(key)
           THEN procs' = [procs EXCEPT ![j].key = key, ![j].ino = dirFinal[key],
                            ![j].pos = 0, ![j].pc = "stream",
                            ![j].parsed = ~schedCache[key]]
           ELSE procs' = [procs EXCEPT ![j].key = key, ![j].pc = "unlink",
                            ![j].parsed = ~schedCache[key]]
        /\ schedCache' = [schedCache EXCEPT ![key] = TRUE]
  /\ UNCHANGED <<feedOff, nprocs, prewarmJobs, dirFinal, dirTmp, inodes>>
  /\ UNCHANGED <<pipeVars, mirrorVars, parseVars, groupVars, shiftVars, settingsVars, cacheVars, storeVars, keyVars>>

\* the read stream hands the next chunk of the file to the response, or ends
\* the response at the end of the file
GzStream(j) ==
  /\ procs[j].type = "gz" /\ procs[j].pc = "stream"
  /\ IF procs[j].pos < Len(inodes[procs[j].ino])
     THEN procs' = [procs EXCEPT ![j].resp = Append(@, inodes[procs[j].ino][procs[j].pos + 1]),
                                 ![j].pos = @ + 1]
     ELSE procs' = [procs EXCEPT ![j].pc = "done"]
  /\ UNCHANGED <<schedCache, feedOff, nprocs, prewarmJobs, dirFinal, dirTmp, inodes>>
  /\ UNCHANGED <<pipeVars, mirrorVars, parseVars, groupVars, shiftVars, settingsVars, cacheVars, storeVars, keyVars>>

\* an old tmp file is unlinked, fs.createWriteStream(tmpPath) is called and
\* the whole document is handed to the gzip stream (lines 1023-1076)
GzUnlink(j) ==
  /\ procs[j].type = "gz" /\ procs[j].pc = "unlink"
  /\ dirTmp' = [dirTmp EXCEPT ![procs[j].key] = 0]
  /\ procs' = [procs EXCEPT ![j].pc = "open"]
  /\ UNCHANGED <<schedCache, feedOff, nprocs, prewarmJobs, dirFinal, inodes>>
  /\ UNCHANGED <<pipeVars, mirrorVars, parseVars, groupVars, shiftVars, settingsVars, cacheVars, storeVars, keyVars>>

\* the write stream opens exports/<key>.xml.gz.tmp
GzOpen(j) ==
  /\ procs[j].type = "gz" /\ procs[j].pc = "open"
  /\ LET o == OpenW(dirTmp, procs[j].key)
     IN /\ dirTmp' = o.dir
        /\ inodes' = o.nodes
        /\ procs' = [procs EXCEPT ![j].ino = o.ino, ![j].pos = 0, ![j].pc = "write"]
  /\ UNCHANGED <<schedCache, feedOff, nprocs, prewarmJobs, dirFinal>>
  /\ UNCHANGED <<pipeVars, mirrorVars, parseVars, groupVars, shiftVars, settingsVars, cacheVars, storeVars, keyVars>>

\* ws 'finish': try { fs.renameSync(tmpPath, exportPath) } catch {} ; the
\* client has received the document
GzFinish(j) ==
  /\ procs[j].type = "gz" /\ procs[j].pc = "write"
  /\ procs[j].pos = Len(Artifact("gz"))
  /\ IF dirTmp[procs[j].key] # 0
     THEN /\ dirFinal' = [dirFinal EXCEPT ![procs[j].key] = dirTmp[procs[j].key]]
          /\ dirTmp' = [dirTmp EXCEPT ![procs[j].key] = 0]
     ELSE UNCHANGED <<dirFinal, dirTmp>>
  /\ procs' = [procs EXCEPT ![j].resp = Artifact("gz"), ![j].pc = "done"]
  /\ UNCHANGED <<schedCache, feedOff, nprocs, prewarmJobs, inodes>>
  /\ UNCHANGED <<pipeVars, mirrorVars, parseVars, groupVars, shiftVars, settingsVars, cacheVars, storeVars, keyVars>>

Next ==
  \/ \E full \in BOOLEAN : PrewarmPost(full)
  \/ \E full \in BOOLEAN : GzGet(full)
  \/ \E j \in 1..nprocs : PrewarmPlaylist(j)
  \/ \E j \in 1..nprocs : PrewarmFails(j)
  \/ \E j \in 1..nprocs : PrewarmMirrored(j)
  \/ \E j \in 1..nprocs : PrewarmOpen(j)
  \/ \E j \in 1..nprocs : WriteChunk(j)
  \/ \E j \in 1..nprocs : PrewarmFinish(j)
  \/ \E j \in 1..nprocs : WriteError(j)
  \/ \E j \in 1..nprocs : GzFails(j)
  \/ \E j \in 1..nprocs : GzPrepared(j)
  \/ \E j \in 1..nprocs : GzStream(j)
  \/ \E j \in 1..nprocs : GzUnlink(j)
  \/ \E j \in 1..nprocs : GzOpen(j)
  \/ \E j \in 1..nprocs : GzFinish(j)

-----------------------------------------------------------------------------
(* SpecMirror: mirrorFetch calls for one URL (not ending in .gz) over the    *)
(* files of data/mirror: <key>.xmltv.gz and <key>.xml (current), their .tmp  *)
(* files, the snapshots <key>.<stamp>.<ext> and <key>.json.                  *)

\* the body of version v of the upstream document, in chunks; a response
\* without a document (v = 0: a 304, an error) has an empty body
BodyOf(v) == IF v = 0 THEN <<>> ELSE [i \in 1..(v + 1) |-> <<v, i>>]
Bodies == {BodyOf(v) : v \in 1..MaxBody}

\* an upstream response: a 200 carries version v, gzip or not
Responses(conditional) ==
  {[status |-> 200, v |-> v, gz |-> g] : v \in 1..MaxBody, g \in BOOLEAN}
  \cup {[status |-> st, v |-> 0, gz |-> FALSE] :
          st \in {404, 500} \cup (IF conditional THEN {304} ELSE {})}

\* tsStamp(new Date()): the clock to the second
tsStamp == mclock

\* the files readdirSync(...).filter(...) keeps (line 71): every name that
\* starts with "<key>." and ends with ".xmltv.gz" or ".xml", that is the
\* snapshots AND the current files. savedAt is the stamp of the name for a
\* snapshot and the mtime for a current file (lines 75-84), in half seconds:
\* a stamp is a whole second, an mtime lies inside its second.
Listing(dir) ==
  {[savedAt |-> 2 * x.stamp, gz |-> x.gz, ino |-> x.ino, cur |-> FALSE, stamp |-> x.stamp] :
     x \in dir.snaps}
  \cup {[savedAt |-> 2 * mmtime[dir.cur[g]] + 1, gz |-> g, ino |-> dir.cur[g],
         cur |-> TRUE, stamp |-> 0] : g \in {h \in BOOLEAN : dir.cur[h] # 0}}

\* out.sort((a,b) => b.savedAt - a.savedAt): newest first
RECURSIVE SortSnaps(_)
SortSnaps(S) ==
  IF S = {} THEN <<>>
  ELSE LET m == CHOOSE x \in S : \A y \in S : y.savedAt <= x.savedAt
       IN <<m>> \o SortSnaps(S \ {m})

\* listSnapshots(url)
listSnapshots == SortSnaps(Listing(mdir))

\* pruneSnapshots(url, retentionDays = 21, keepMax = 40): every listed file
\* older than the cutoff or past the keepMax-th is unlinked
RetentionSeconds == 21 * 24 * 60 * 60
KeepMax == 40
pruneSnapshots(dir) ==
  LET l == SortSnaps(Listing(dir))
      gone == {l[i] : i \in {i \in 1..Len(l) :
                 l[i].savedAt < 2 * (mclock - RetentionSeconds) \/ i > KeepMax}}
  IN [dir EXCEPT
        !.snaps = {x \in @ : \A e \in gone : e.cur \/ e.ino # x.ino},
        !.cur = [g \in BOOLEAN |->
                   IF \E e \in gone : e.cur /\ e.gz = g THEN 0 ELSE dir.cur[g]]]

\* forceDownload up to fs.createWriteStream(tmp): the current file, if there
\* is one, is renamed to the snapshot of this second (lines 103-119)
Rotate(dir, gz) ==
  IF dir.cur[gz] # 0
  THEN [dir EXCEPT !.cur[gz] = 0,
                   !.snaps = {x \in @ : ~(x.stamp = tsStamp /\ x.gz = gz)}
                             \cup {[stamp |-> tsStamp, gz |-> gz, ino |-> dir.cur[gz]]}]
  ELSE dir

\* the content of the current files, Null for an absent one
CurrentContent ==
  [g \in BOOLEAN |-> IF mdir.cur[g] = 0 THEN Null ELSE Some(mnodes[mdir.cur[g]])]

\* a mirrorFetch call. Besides the position, the metadata read, the response
\* and the write stream, the record keeps what the call saw: the current
\* files when it was called (before), whether another call of the URL was in
\* flight during it (ovl), whether it took the refetch of lines 51-55
\* (fresh), whether a current file existed when it threw (had), the content
\* of the current file (wrote) and of the file listSnapshots(url)[0] names
\* (top) when it returned, the GETs it sent, each conditional or not (reqs),
\* the status of the first response (first) and whether the rename of the
\* rotation threw (rotFailed).
NewFetch ==
  [pc |-> "req", prev |-> mmeta, res |-> [status |-> 0, v |-> 0, gz |-> FALSE],
   ino |-> 0, pos |-> 0,
   before |-> CurrentContent,
   ovl |-> \E i \in 1..Len(mprocs) : mprocs[i].pc \notin {"done", "failed", "killed"},
   fresh |-> FALSE, had |-> FALSE, wrote |-> Null, top |-> Null,
   reqs |-> <<mmeta # Null>>, first |-> 0, rotFailed |-> FALSE]

\* the mirror directory is empty, or holds what one complete mirrorFetch of
\* version 1 left: the current .xml file and the metadata
InitMirror ==
  /\ mprocs = <<>>
  /\ mclock = 0
  /\ \E pre \in BOOLEAN :
       IF pre
       THEN /\ mdir = [cur |-> [g \in BOOLEAN |-> IF g THEN 0 ELSE 1],
                       tmp |-> [g \in BOOLEAN |-> 0], snaps |-> {}]
            /\ mnodes = <<BodyOf(1)>>
            /\ mmtime = <<0>>
            /\ mmeta = Some([etag |-> 1, isGz |-> FALSE])
       ELSE /\ mdir = [cur |-> [g \in BOOLEAN |-> 0], tmp |-> [g \in BOOLEAN |-> 0],
                       snaps |-> {}]
            /\ mnodes = <<>>
            /\ mmtime = <<>>
            /\ mmeta = Null

\* mirrorFetch(url) is called: the metadata file is read and the request is
\* sent, conditional if the metadata has validators (lines 32-39)
MirrorFetch ==
  /\ Len(mprocs) < MaxFetches
  /\ mprocs' = Append([i \in 1..Len(mprocs) |->
                         IF mprocs[i].pc \in {"done", "failed", "killed"} THEN mprocs[i]
                         ELSE [mprocs[i] EXCEPT !.ovl = TRUE]],
                      NewFetch)
  /\ UNCHANGED <<mdir, mnodes, mmeta, mmtime, mclock>>
  /\ UNCHANGED <<pipeVars, exportVars, parseVars, groupVars, shiftVars, settingsVars, cacheVars, storeVars, keyVars>>

\* a 2xx response enters forceDownload, which rotates and calls
\* fs.createWriteStream(tmp). The rotation is inside try { } catch {} (lines
\* 108-114): when renameSync(target, snap) throws, the current file stays and
\* the download goes on
Download(m, r) ==
  \E renamed \in BOOLEAN :
    /\ renamed \/ mdir.cur[r.gz] # 0
    /\ mprocs' = [mprocs EXCEPT ![m].res = r, ![m].pc = "open",
                                ![m].first = IF @ = 0 THEN r.status ELSE @,
                                ![m].rotFailed = ~renamed]
    /\ mdir' = IF renamed THEN Rotate(mdir, r.gz) ELSE mdir
    /\ UNCHANGED <<mnodes, mmeta, mmtime, mclock>>

\* a response that is not ok: mirrorFetch throws (lines 54, 59)
Fail(m, r) ==
  /\ mprocs' = [mprocs EXCEPT ![m].res = r, ![m].pc = "failed",
                              ![m].first = IF @ = 0 THEN r.status ELSE @,
                              ![m].had = \E g \in BOOLEAN : mdir.cur[g] # 0]
  /\ UNCHANGED <<mdir, mnodes, mmeta, mmtime, mclock>>

\* the first response arrives, the retry after a 5xx sent with the same
\* conditional headers (a faulty variant, for comparison)
Respond_retrySameHeaders(m, r) ==
  /\ mprocs[m].pc = "req"
  /\ r \in Responses(mprocs[m].prev # Null)
  /\ IF r.status >= 500
     THEN /\ mprocs' = [mprocs EXCEPT ![m].pc = "retry", ![m].first = r.status,
                                     ![m].reqs = Append(@, @[1])]
          /\ UNCHANGED <<mdir, mnodes, mmeta, mmtime, mclock>>
     ELSE IF r.status = 304
     THEN IF mdir.cur[mprocs[m].prev[1].isGz] = 0
          THEN /\ mprocs' = [mprocs EXCEPT ![m].pc = "fresh", ![m].fresh = TRUE,
                                          ![m].first = r.status,
                                          ![m].reqs = Append(@, FALSE)]
               /\ UNCHANGED <<mdir, mnodes, mmeta, mmtime, mclock>>
          ELSE /\ mprocs' = [mprocs EXCEPT ![m].res = r, ![m].pc = "done",
                                          ![m].first = r.status]
               /\ UNCHANGED <<mdir, mnodes, mmeta, mmtime, mclock>>
     ELSE IF r.status = 200 THEN Download(m, r)
     ELSE Fail(m, r)
  /\ UNCHANGED <<pipeVars, exportVars, parseVars, groupVars, shiftVars, settingsVars, cacheVars, storeVars, keyVars>>

\* the first response arrives (lines 39-60)
Respond(m, r) ==
  /\ mprocs[m].pc = "req"
  /\ r \in Responses(mprocs[m].prev # Null)
  /\ IF r.status >= 500
     THEN /\ mprocs' = [mprocs EXCEPT ![m].pc = "retry", ![m].first = r.status,
                                     ![m].reqs = Append(@, FALSE)]
          /\ UNCHANGED <<mdir, mnodes, mmeta, mmtime, mclock>>
     ELSE IF r.status = 304
     THEN IF mdir.cur[mprocs[m].prev[1].isGz] = 0
          THEN /\ mprocs' = [mprocs EXCEPT ![m].pc = "fresh", ![m].fresh = TRUE,
                                          ![m].first = r.status,
                                          ![m].reqs = Append(@, FALSE)]
               /\ UNCHANGED <<mdir, mnodes, mmeta, mmtime, mclock>>
          ELSE /\ mprocs' = [mprocs EXCEPT ![m].res = r, ![m].pc = "done",
                                          ![m].first = r.status]
               /\ UNCHANGED <<mdir, mnodes, mmeta, mmtime, mclock>>
     ELSE IF r.status = 200 THEN Download(m, r)
     ELSE Fail(m, r)
  /\ UNCHANGED <<pipeVars, exportVars, parseVars, groupVars, shiftVars, settingsVars, cacheVars, storeVars, keyVars>>

\* the response of the unconditional retry after a 5xx (lines 41-60), or of
\* the unconditional refetch after a 304 without a file (lines 53-55)
RespondAgain(m, r) ==
  /\ mprocs[m].pc \in {"retry", "fresh"}
  /\ r \in Responses(FALSE)
  /\ IF r.status = 200 THEN Download(m, r) ELSE Fail(m, r)
  /\ UNCHANGED <<pipeVars, exportVars, parseVars, groupVars, shiftVars, settingsVars, cacheVars, storeVars, keyVars>>

\* the write stream opens <target>.tmp with flag 'w'
MirrorOpen(m) ==
  /\ mprocs[m].pc = "open"
  /\ LET gz == mprocs[m].res.gz
     IN IF mdir.tmp[gz] # 0
        THEN /\ mnodes' = [mnodes EXCEPT ![mdir.tmp[gz]] = <<>>]
             /\ mmtime' = [mmtime EXCEPT ![mdir.tmp[gz]] = mclock]
             /\ mprocs' = [mprocs EXCEPT ![m].ino = mdir.tmp[gz], ![m].pc = "write"]
             /\ UNCHANGED mdir
        ELSE /\ mnodes' = Append(mnodes, <<>>)
             /\ mmtime' = Append(mmtime, mclock)
             /\ mdir' = [mdir EXCEPT !.tmp[gz] = Len(mnodes) + 1]
             /\ mprocs' = [mprocs EXCEPT ![m].ino = Len(mnodes) + 1, ![m].pc = "write"]
  /\ UNCHANGED <<mmeta, mclock>>
  /\ UNCHANGED <<pipeVars, exportVars, parseVars, groupVars, shiftVars, settingsVars, cacheVars, storeVars, keyVars>>

\* src.pipe(out): the next chunk of the body is written at the stream's
\* position
MirrorWrite(m) ==
  /\ mprocs[m].pc = "write"
  /\ mprocs[m].pos < Len(BodyOf(mprocs[m].res.v))
  /\ mnodes' = [mnodes EXCEPT ![mprocs[m].ino] =
                  WriteAt(@, mprocs[m].pos, BodyOf(mprocs[m].res.v)[mprocs[m].pos + 1])]
  /\ mmtime' = [mmtime EXCEPT ![mprocs[m].ino] = mclock]
  /\ mprocs' = [mprocs EXCEPT ![m].pos = @ + 1]
  /\ UNCHANGED <<mdir, mmeta, mclock>>
  /\ UNCHANGED <<pipeVars, exportVars, parseVars, groupVars, shiftVars, settingsVars, cacheVars, storeVars, keyVars>>

\* the body stream fails midway: pipe() forwards no error, the source emits
\* 'error' with no listener and the server process goes down with every call
\* in flight; the files stay as they are
MirrorBodyError(m) ==
  /\ mprocs[m].pc = "write"
  /\ mprocs[m].pos < Len(BodyOf(mprocs[m].res.v))
  /\ mprocs' = [i \in 1..Len(mprocs) |->
                  IF mprocs[i].pc \in {"done", "failed", "killed"} THEN mprocs[i]
                  ELSE [mprocs[i] EXCEPT !.pc = "killed"]]
  /\ UNCHANGED <<mdir, mnodes, mmeta, mmtime, mclock>>
  /\ UNCHANGED <<pipeVars, exportVars, parseVars, groupVars, shiftVars, settingsVars, cacheVars, storeVars, keyVars>>

\* out 'finish': renameSync(tmp, target), the metadata is written and the
\* snapshots are pruned (lines 137-148); renameSync throws if tmp is gone
MirrorFinish(m) ==
  /\ mprocs[m].pc = "write"
  /\ mprocs[m].pos = Len(BodyOf(mprocs[m].res.v))
  /\ LET gz == mprocs[m].res.gz
         moved == [mdir EXCEPT !.cur[gz] = mdir.tmp[gz], !.tmp[gz] = 0]
         after == pruneSnapshots(moved)
     IN IF mdir.tmp[gz] = 0
        THEN /\ mprocs' = [mprocs EXCEPT ![m].pc = "failed"]
             /\ UNCHANGED <<mdir, mmeta>>
        ELSE /\ mprocs' = [mprocs EXCEPT
                             ![m].pc = "done",
                             ![m].wrote = Some(mnodes[moved.cur[gz]]),
                             ![m].top = Some(mnodes[SortSnaps(Listing(after))[1].ino])]
             /\ mdir' = after
             /\ mmeta' = Some([etag |-> mprocs[m].res.v, isGz |-> gz])
  /\ UNCHANGED <<mnodes, mmtime, mclock>>
  /\ UNCHANGED <<pipeVars, exportVars, parseVars, groupVars, shiftVars, settingsVars, cacheVars, storeVars, keyVars>>

\* a second passes
Tick ==
  /\ mclock < MaxClock
  /\ mclock' = mclock + 1
  /\ UNCHANGED <<mprocs, mdir, mnodes, mmeta, mmtime>>
  /\ UNCHANGED <<pipeVars, exportVars, parseVars, groupVars, shiftVars, settingsVars, cacheVars, storeVars, keyVars>>

NextMirror ==
  \/ MirrorFetch
  \/ Tick
  \/ \E m \in 1..Len(mprocs), r \in Responses(TRUE) : Respond(m, r)
  \/ \E m \in 1..Len(mprocs), r \in Responses(FALSE) : RespondAgain(m, r)
  \/ \E m \in 1..Len(mprocs) : MirrorOpen(m)
  \/ \E m \in 1..Len(mprocs) : MirrorWrite(m)
  \/ \E m \in 1..Len(mprocs) : MirrorBodyError(m)
  \/ \E m \in 1..Len(mprocs) : MirrorFinish(m)

-----------------------------------------------------------------------------
(* SpecPrune: the end of one download into a mirror directory that holds    *)
(* many snapshots, and POST /api/settings                                   *)

Day == 24 * 60 * 60
\* the wall clock of the run
PruneNow == 40 * Day
\* the directory starts with one snapshot of the last minute, or with about
\* keepMax of them, at most
MaxRecent == 41
RecentCounts == {1} \cup ((MaxRecent - 2)..MaxRecent)
\* the ages, in days, of the older snapshots the directory may hold
OldAges == {2, 25}
\* the values posted as historyRetentionDays
RetentionChoices == {1, 21, 30}

\* POST /api/settings with a finite historyRetentionDays: the stored default
\* becomes Math.max(1, historyRetentionDays|0)
PostSettings(d) ==
  /\ defaults' = [defaults EXCEPT !.historyRetentionDays = Max(1, d)]
  /\ UNCHANGED <<pipeVars, exportVars, mirrorVars, parseVars, groupVars, shiftVars,
                 cacheVars, storeVars, keyVars>>

\* One mirrorFetch got 200 (plain, version 2) and forceDownload has rotated
\* the current <key>.xml into the snapshot of this second. The directory
\* holds n snapshots of the last seconds (inodes 1..n, the newest the one
\* just rotated), the older snapshots of the ages in old (inodes n+1, n+2)
\* and, when other, a current <key>.xmltv.gz last written two days ago
\* (inode n+3).
InitPrune ==
  \E n \in RecentCounts, old \in SUBSET OldAges, other \in BOOLEAN :
    /\ mclock = PruneNow
    /\ mnodes = [i \in 1..(n + 3) |-> BodyOf(1)]
    /\ mmtime = [i \in 1..(n + 3) |->
                   IF i <= n THEN PruneNow - i
                   ELSE IF i = n + 1 THEN PruneNow - 2 * Day - 1
                   ELSE IF i = n + 2 THEN PruneNow - 25 * Day - 1
                   ELSE PruneNow - 2 * Day]
    /\ mdir = [cur |-> [g \in BOOLEAN |-> IF g /\ other THEN n + 3 ELSE 0],
               tmp |-> [g \in BOOLEAN |-> 0],
               snaps |-> {[stamp |-> PruneNow - (i - 1), gz |-> FALSE, ino |-> i] :
                            i \in 1..n}
                         \cup {[stamp |-> PruneNow - 2 * Day, gz |-> FALSE, ino |-> n + 1] :
                                 a \in old \cap {2}}
                         \cup {[stamp |-> PruneNow - 25 * Day, gz |-> FALSE, ino |-> n + 2] :
                                 a \in old \cap {25}}]
    /\ mmeta = Some([etag |-> 1, isGz |-> FALSE])
    /\ mprocs = << [pc |-> "open", prev |-> Some([etag |-> 1, isGz |-> FALSE]),
                    res |-> [status |-> 200, v |-> 2, gz |-> FALSE],
                    ino |-> 0, pos |-> 0,
                    before |-> [g \in BOOLEAN |->
                                  IF g /\ ~other THEN Null ELSE Some(BodyOf(1))],
                    ovl |-> FALSE, fresh |-> FALSE, had |-> FALSE,
                    wrote |-> Null, top |-> Null,
                    reqs |-> <<TRUE>>, first |-> 200, rotFailed |-> FALSE] >>
    /\ defaults = [historyRetentionDays |-> 21]

NextPrune ==
  \/ \E d \in RetentionChoices : PostSettings(d)
  \/ \E m \in 1..Len(mprocs) : MirrorOpen(m)
  \/ \E m \in 1..Len(mprocs) : MirrorWrite(m)
  \/ \E m \in 1..Len(mprocs) : MirrorFinish(m)

-----------------------------------------------------------------------------
(* SpecParse: one call streamParseXmltv(path, allowedIds, opts) over the    *)
(* elements of a file, closed one at a time (streamXmltv.js)                *)

\* opts.limitProgrammes: a finite number, or absent (Infinity, line 13)
NoLimit  == [fin |-> FALSE, n |-> 0]
Limit(n) == [fin |-> TRUE, n |-> n]
\* if (totalProgrammes >= limitProgrammes), line 163
limitReached(total, limit) == limit.fin /\ total >= limit.n

\* the arguments of the call: allowedIds null, an empty Set or the Set {A}
SAllowed == {AllIds, Ids({}), Ids({"A"})}
SLimits  == {NoLimit} \cup {Limit(n) : n \in 0..MaxLimit}
\* the default window around now (lines 14-19), in the model's units
SWindow  == [noWindow |-> FALSE, from |-> 2, to |-> 5]

\* the elements of a file: channels, and programmes inside and outside the
\* window
SChannels   == {"A", "B"}
\* the display-name and the icon of a channel element, "" when it has none
SNames      == {"", "n1", "n2"}
SIcons      == {"", "i1", "i2"}
SProgrammes ==
  {[channel |-> c, start |-> Ts(w, FALSE, 0), stop |-> Ts(w + 1, FALSE, 0)] :
     c \in SChannels, w \in {3, 6}}

InitParse ==
  /\ \E a \in SAllowed, l \in SLimits : sopts = [allowed |-> a, limit |-> l]
  /\ spc = "parsing"
  /\ sfed = <<>>
  /\ sst = [sched |-> <<>>, total |-> 0, channels |-> {}, chmeta |-> <<>>]

\* the value channels.set(id, ...) stores (lines 152-155): prev is the
\* entry of the id so far, name and icon are those of the element closed
channelEntry(prev, id, name, icon) ==
  [name |-> IF name # "" THEN name ELSE IF prev.name # "" THEN prev.name ELSE id,
   icon |-> IF icon # "" THEN icon ELSE prev.icon]

\* closetag 'channel' (lines 150-157): channels.set(id, ...); channels holds
\* the keys of the Map and chmeta its values
ParseChannel(id, name, icon) ==
  /\ spc = "parsing"
  /\ Len(sfed) < MaxElems
  /\ LET prev == IF id \in sst.channels THEN sst.chmeta[id]
                 ELSE [name |-> "", icon |-> ""]
     IN sst' = [sst EXCEPT !.channels = @ \cup {id},
                           !.chmeta = MapSet(@, id, channelEntry(prev, id, name, icon))]
  /\ sfed' = Append(sfed, [tag |-> "channel", id |-> id, name |-> name, icon |-> icon])
  /\ UNCHANGED <<sopts, spc>>
  /\ UNCHANGED <<pipeVars, exportVars, mirrorVars, groupVars, shiftVars, settingsVars, cacheVars, storeVars, keyVars>>

\* closetag 'programme' (lines 158-168): pushProgramme(curProg), and only
\* then the test of the limit. parser.close() is a call into the sax
\* library, inside try/catch: it ends the parse (stops) or throws and is
\* swallowed, and the parse goes on; the flag aborted is read nowhere.
ParseProgramme(e, stops) ==
  /\ spc = "parsing"
  /\ Len(sfed) < MaxElems
  /\ LET st1 == pushProgramme(sst, e, "mirror", sopts.allowed, SWindow)
     IN /\ sst' = st1
        /\ IF limitReached(st1.total, sopts.limit)
           THEN spc' = IF stops THEN "stopped" ELSE "parsing"
           ELSE ~stops /\ spc' = spc
  /\ sfed' = Append(sfed, [tag |-> "programme", e |-> e])
  /\ UNCHANGED sopts
  /\ UNCHANGED <<pipeVars, exportVars, mirrorVars, groupVars, shiftVars, settingsVars, cacheVars, storeVars, keyVars>>

\* parser 'end' (line 173): the schedules are sorted and the result returned
ParseEnd ==
  /\ spc \in {"parsing", "stopped"}
  /\ spc' = "end"
  /\ sst' = [sst EXCEPT !.sched = parseResult(sst)]
  /\ UNCHANGED <<sopts, sfed>>
  /\ UNCHANGED <<pipeVars, exportVars, mirrorVars, groupVars, shiftVars, settingsVars, cacheVars, storeVars, keyVars>>

\* parser 'error' or input 'error' (lines 172, 174): the promise rejects
ParseError ==
  /\ spc = "parsing"
  /\ spc' = "rejected"
  /\ UNCHANGED <<sopts, sfed, sst>>
  /\ UNCHANGED <<pipeVars, exportVars, mirrorVars, groupVars, shiftVars, settingsVars, cacheVars, storeVars, keyVars>>

NextParse ==
  \/ \E id \in SChannels, name \in SNames, icon \in SIcons : ParseChannel(id, name, icon)
  \/ \E e \in SProgrammes, stops \in BOOLEAN : ParseProgramme(e, stops)
  \/ ParseEnd
  \/ ParseError

-----------------------------------------------------------------------------
(* SpecGroups: the parse-and-merge step of one request over two groups, in  *)
(* /epg.xml.gz, /epg.xml, prewarmExportJob and /api/epg (server.js)         *)

\* a playlist of two channels: A has no mapping and is served by the default
\* EPG u1; B has the mapping of the request, which may name the source s1 at
\* u2 (enabled or not), a source that does not exist, or none, and may name
\* another EPG channel id
GPlaylist == <<"A", "B">>
GMaps ==
  {[NoMapping EXCEPT !.sourceId = sid, !.epgChannelId = eid] :
     sid \in {"", "s1", "s9"}, eid \in {"", "X"}}
\* A may be mapped as well, to the EPG channel X of the source s1
GMapsA ==
  {NoMapping, [NoMapping EXCEPT !.sourceId = "s1", !.epgChannelId = "X"]}
GMappings == [id \in {"A", "B"} |-> IF id = "B" THEN gcfg.map ELSE gcfg.mapA]
GSources  == <<[id |-> "s1", url |-> "u2", enabled |-> gcfg.enabled]>>
GGroups   == planGroups(GPlaylist, GMappings, GSources, "u1")

GKinds == {"gz", "xml", "prewarm", "epg"}
\* the window of the request
GOpts  == [noWindow |-> FALSE, from |-> 2, to |-> 5]
\* the programmes a group's mirror file may hold
GElems ==
  {[channel |-> c, start |-> Ts(w, FALSE, 0), stop |-> Ts(w + 1, FALSE, 0)] :
     c \in {"A", "B", "b", "X"}, w \in {3, 4}}

InitGroups ==
  /\ gcfg \in [kind : GKinds, map : GMaps, mapA : GMapsA, enabled : BOOLEAN]
  /\ gpc = "parse"
  /\ gres = [g \in 1..Len(GGroups) |-> [pc |-> "parsing", st |-> EmptyParse, rank |-> 0]]
  /\ gout = Null

\* the parser of group g closes a programme element; the programme is
\* marked with the URL of the group and the channel id it carries
GroupProgramme(g, e) ==
  /\ gpc = "parse"
  /\ gres[g].pc = "parsing"
  /\ gres[g].st.total < MaxGroupProgs
  /\ gres' = [gres EXCEPT ![g].st =
                pushProgramme(@, e, <<GGroups[g].url, e.channel>>,
                              GGroups[g].allowed, GOpts)]
  /\ UNCHANGED <<gcfg, gpc, gout>>
  /\ UNCHANGED <<pipeVars, exportVars, mirrorVars, parseVars, shiftVars, settingsVars, cacheVars, storeVars, keyVars>>

\* the parses run concurrently (groupArr.map(...) starts them all, server.js
\* 970): rank is the place of a parse in the order in which they settle
Settled == Cardinality({h \in 1..Len(GGroups) : gres[h].pc # "parsing"})

\* the parse of group g ends: its promise is fulfilled with the sorted
\* schedules
GroupEnd(g) ==
  /\ gpc = "parse"
  /\ gres[g].pc = "parsing"
  /\ gres' = [gres EXCEPT ![g].pc = "fulfilled", ![g].st.sched = parseResult(gres[g].st),
                          ![g].rank = Settled + 1]
  /\ UNCHANGED <<gcfg, gpc, gout>>
  /\ UNCHANGED <<pipeVars, exportVars, mirrorVars, parseVars, shiftVars, settingsVars, cacheVars, storeVars, keyVars>>

\* the parse of group g fails (malformed XML, corrupt gzip, read error):
\* its promise is rejected (streamXmltv.js 171-176)
GroupError(g) ==
  /\ gpc = "parse"
  /\ gres[g].pc = "parsing"
  /\ gres' = [gres EXCEPT ![g].pc = "rejected", ![g].rank = Settled + 1]
  /\ UNCHANGED <<gcfg, gpc, gout>>
  /\ UNCHANGED <<pipeVars, exportVars, mirrorVars, parseVars, shiftVars, settingsVars, cacheVars, storeVars, keyVars>>

\* /api/epg merges through g.idMap only (server.js 540-545)
mergeEpg(sched, g, raw, mappings) ==
  mergeEntries(sched, [g EXCEPT !.allowed = Ids(g.allowed.ids)], raw, 1, mappings, TRUE)

\* the results merged in the order in which the parses settled
RECURSIVE mergeSettled_completionOrder(_, _, _)
mergeSettled_completionOrder(kind, sched, i) ==
  IF i > Len(GGroups) THEN sched
  ELSE LET g == CHOOSE h \in 1..Len(GGroups) : gres[h].rank = i
       IN mergeSettled_completionOrder(kind,
            IF gres[g].pc # "fulfilled" THEN sched
            ELSE IF kind = "xml" THEN mergeXml(sched, GGroups[g], gres[g].st.sched, GMappings)
            ELSE IF kind = "epg" THEN mergeEpg(sched, GGroups[g], gres[g].st.sched, GMappings)
            ELSE mergeGz(sched, GGroups[g], gres[g].st.sched, GMappings),
            i + 1)

\* the loop over the settled results, by index of the group: a result that
\* is not fulfilled is skipped (server.js 972-973, 1168-1169, 310-311)
RECURSIVE mergeSettled(_, _, _)
mergeSettled(kind, sched, i) ==
  IF i > Len(GGroups) THEN sched
  ELSE mergeSettled(kind,
         IF gres[i].pc # "fulfilled" THEN sched
         ELSE IF kind = "xml" THEN mergeXml(sched, GGroups[i], gres[i].st.sched, GMappings)
         ELSE IF kind = "epg" THEN mergeEpg(sched, GGroups[i], gres[i].st.sched, GMappings)
         ELSE mergeGz(sched, GGroups[i], gres[i].st.sched, GMappings),
         i + 1)

\* every parse has settled. /epg.xml.gz, /epg.xml and prewarmExportJob await
\* Promise.allSettled and go on to merge and sort; /api/epg awaits
\* Promise.all, which rejects when one parse does, and its catch answers 500
\* (server.js 533, 604-606)
GroupsSettle ==
  /\ gpc = "parse"
  /\ \A g \in 1..Len(GGroups) : gres[g].pc # "parsing"
  /\ gpc' = "done"
  /\ gout' = IF gcfg.kind = "epg" /\ \E g \in 1..Len(GGroups) : gres[g].pc = "rejected"
             THEN Some([ok |-> FALSE, sched |-> <<>>])
             ELSE Some([ok |-> TRUE, sched |-> sortAll(mergeSettled(gcfg.kind, <<>>, 1))])
  /\ UNCHANGED <<gcfg, gres>>
  /\ UNCHANGED <<pipeVars, exportVars, mirrorVars, parseVars, shiftVars, settingsVars, cacheVars, storeVars, keyVars>>

NextGroups ==
  \/ \E g \in 1..Len(GGroups), e \in GElems : GroupProgramme(g, e)
  \/ \E g \in 1..Len(GGroups) : GroupEnd(g)
  \/ \E g \in 1..Len(GGroups) : GroupError(g)
  \/ GroupsSettle

-----------------------------------------------------------------------------
(* SpecShift: one call formatXmltvWithZone(utcIso, originalXmltv, zoneId,   *)
(* offsetMinutes, shiftMode) (server.js 144-241)                            *)

\* originalXmltv: a timestamp without offset, with an offset up to the
\* clamp on either side, an attribute the grammar does not match, or null
TOrigs ==
  {Ts(w, FALSE, 0) : w \in {3, 4}}
  \cup {Ts(w, TRUE, z) : w \in {3, 4}, z \in {0 - ClampUnits, 0, 1, ClampUnits}}
  \cup {BadTs, NullTs}
\* utcIso as the callers pass it: p.start as parsed (/epg.xml), p.start moved
\* by the mapping's offset in the merge (/epg.xml.gz, prewarmExportJob)
TUtcs(orig, k) ==
  LET iso == xmltvTimeToIso(orig)
  IN {iso, IF iso = Null THEN Null ELSE Some(iso[1] + k)}
TZones == {"", "Z1"}
TModes == {"wall", "offset"}

InitShift ==
  /\ \E orig \in TOrigs, k \in (0 - MaxShift)..MaxShift, z \in TZones, m \in TModes :
       \E u \in TUtcs(orig, k) :
         tin = [utcIso |-> u, orig |-> orig, zoneId |-> z, addOff |-> k, shiftMode |-> m]
  /\ tout = Null

\* the call returns
Format ==
  /\ tout = Null
  /\ tout' = Some(formatXmltvWithZone(tin.utcIso, tin.orig, tin.zoneId, tin.addOff,
                                      tin.shiftMode))
  /\ UNCHANGED tin
  /\ UNCHANGED <<pipeVars, exportVars, mirrorVars, parseVars, groupVars, settingsVars, cacheVars, storeVars, keyVars>>

NextShift == Format

-----------------------------------------------------------------------------
(* Idle values of the variables a specification does not use *)

IdlePipe ==
  /\ pcfg = [kind |-> "gz", full |-> TRUE, from |-> 2, to |-> 5, now |-> 4, map |-> NoMapping,
             cur |-> FALSE]
  /\ ppc = "done"
  /\ pnum = 0
  /\ pparse = EmptyParse
  /\ psched = <<>>
  /\ pkeys = <<>>
  /\ psnaps = 0
  /\ pfed = <<>>
  /\ pout = <<>>

IdleExport ==
  /\ feedOff = 0
  /\ procs = <<>>
  /\ nprocs = 0
  /\ prewarmJobs = <<>>
  /\ dirFinal = <<>>
  /\ dirTmp = <<>>
  /\ inodes = <<>>
  /\ schedCache = <<>>

IdleMirror ==
  /\ mprocs = <<>>
  /\ mdir = <<>>
  /\ mnodes = <<>>
  /\ mmeta = <<>>
  /\ mmtime = <<>>
  /\ mclock = 0

IdleParse ==
  /\ sopts = <<>>
  /\ spc = "end"
  /\ sfed = <<>>
  /\ sst = <<>>

IdleGroups ==
  /\ gcfg = ""
  /\ gpc = "done"
  /\ gres = <<>>
  /\ gout = <<>>

-----------------------------------------------------------------------------
(* SpecCache: the memory map and the disk file of one cache key (cache.js, *)
(* src/unnamed/part_005 lines 1-34)                                        *)

MinTtl     == 1000
TenMinutes == 10 * 60 * 1000
\* the ttlMs a caller passes: none (undefined | 0 is 0), a second and a
\* half, and the ten minutes every caller in server.js passes
TtlChoices == {0, 1500, TenMinutes}
\* Date.now() when the process is first followed, and the later instants at
\* which it is read: up to two seconds on, and the same past ten minutes
CacheStart == 5000
CacheTimes ==
  {CacheStart + k + j : k \in {0, TenMinutes}, j \in {0, 500, 1000, 1500, 2000}}

\* Math.max(1000, ttlMs|0) (line 27); |0 leaves the integers of TtlChoices
\* as they are
ttlOf(ttlMs) == Max(MinTtl, ttlMs)

\* Date.now() - v.at < v.ttl (lines 11, 19)
fresh(e, now) == now - e.at < e.ttl

\* the entry put in memory with its time of storing set to now
promote_restamped(raw, now) == [at |-> now, ttl |-> raw.ttl, data |-> raw.data]

\* mem.set(key, { at: raw.at, ttl: raw.ttl, data: raw.data }) (line 20)
promote(raw, now) == [at |-> raw.at, ttl |-> raw.ttl, data |-> raw.data]

\* getCache(key) (lines 9-24): the value returned, the tier it came from and
\* the memory entry afterwards. A file that does not parse throws inside
\* try and null is returned.
getCache(mem, disk, now) ==
  IF mem # Null /\ fresh(mem[1], now)
  THEN [data |-> Some(mem[1].data), from |-> "mem", mem |-> mem]
  ELSE IF disk = Null THEN [data |-> Null, from |-> "none", mem |-> mem]
  ELSE IF /\ disk[1].parses
          /\ disk[1].at # 0 /\ disk[1].ttl # 0
          /\ fresh(disk[1], now)
       THEN [data |-> Some(disk[1].data), from |-> "disk",
             mem |-> Some(promote(disk[1], now))]
       ELSE [data |-> Null, from |-> "none", mem |-> mem]

InitCache ==
  /\ cmem = Null
  /\ cdisk = Null
  /\ cnow = CacheStart
  /\ csets = <<>>
  /\ cret = Null

\* setCache(key, data, ttlMs) (lines 26-33). The data of the n-th call is n.
\* writeFileSync is in try/catch: when it fails the file is as before, or is
\* left truncated and does not parse.
CacheSet(ttlMs, wr) ==
  /\ Len(csets) < MaxSets
  /\ LET e == [at |-> cnow, ttl |-> ttlOf(ttlMs), data |-> Len(csets) + 1]
     IN /\ cmem' = Some(e)
        /\ cdisk' = IF wr = "ok" THEN Some([parses |-> TRUE] @@ e)
                    ELSE IF wr = "torn" THEN Some([parses |-> FALSE] @@ e)
                    ELSE cdisk
  /\ csets' = Append(csets, [at |-> cnow, req |-> ttlMs])
  /\ UNCHANGED <<cnow, cret>>
  /\ UNCHANGED <<pipeVars, exportVars, mirrorVars, parseVars, groupVars, shiftVars,
                 settingsVars, storeVars, keyVars>>

\* one call getCache(key)
CacheGet ==
  /\ LET r == getCache(cmem, cdisk, cnow)
     IN /\ cmem' = r.mem
        /\ cret' = Some([data |-> r.data, from |-> r.from, at |-> cnow])
  /\ UNCHANGED <<cdisk, cnow, csets>>
  /\ UNCHANGED <<pipeVars, exportVars, mirrorVars, parseVars, groupVars, shiftVars,
                 settingsVars, storeVars, keyVars>>

\* the process is restarted: the module-level Map (line 7) starts empty, the
\* files stay
CacheRestart ==
  /\ cmem # Null
  /\ cmem' = Null
  /\ UNCHANGED <<cdisk, cnow, csets, cret>>
  /\ UNCHANGED <<pipeVars, exportVars, mirrorVars, parseVars, groupVars, shiftVars,
                 settingsVars, storeVars, keyVars>>

\* time passes
CacheTick(t) ==
  /\ t > cnow
  /\ cnow' = t
  /\ UNCHANGED <<cmem, cdisk, csets, cret>>
  /\ UNCHANGED <<pipeVars, exportVars, mirrorVars, parseVars, groupVars, shiftVars,
                 settingsVars, storeVars, keyVars>>

NextCache ==
  \/ \E ttlMs \in TtlChoices, wr \in {"ok", "fail", "torn"} : CacheSet(ttlMs, wr)
  \/ CacheGet
  \/ CacheRestart
  \/ \E t \in CacheTimes : CacheTick(t)

-----------------------------------------------------------------------------
(* SpecStore: the settings store (streamXmltv.js lines 186-351) and one     *)
(* request that holds what a getter returned. The objects of the store are  *)
(* kept by reference: heap[r] is the content of the object r, root the      *)
(* references in the fields of cached. saveSettings writes the file, which  *)
(* is not read again while cached is set.                                   *)

StoreIds  == {"A", "B"}
StoreMaps ==
  {[sourceId |-> "s1", offsetMinutes |-> 30], [sourceId |-> "s2", offsetMinutes |-> 0]}
StoreSrcs ==
  {[id |-> "s1", enabled |-> FALSE], [id |-> "s2", enabled |-> TRUE]}
StoreDefs == {[pastDays |-> d] : d \in {3, 7}}
Getters   == {"mappings", "sources", "defaults"}

\* the object r is no longer the value of a field of cached: it lives on
\* only while the request holds it
Release(h, r) == IF held # Null /\ held[1].ref = r THEN h ELSE [h EXCEPT ![r] = <<>>]

\* an object without key k
Without(obj, k) == [x \in (DOMAIN obj) \ {k} |-> obj[x]]

\* cached after loadSettings: one source, one mapping
InitStore ==
  /\ heap = << ("A" :> [sourceId |-> "s1", offsetMinutes |-> 0]),
               <<[id |-> "s1", enabled |-> TRUE]>>,
               [pastDays |-> 7] >>
  /\ root = [mappings |-> 1, sources |-> 2, defaults |-> 3]
  /\ held = Null

\* the request calls getMappings, listSources or getDefaults (lines 244-247,
\* 256-259, 295-298): each returns the object in the field of cached
StoreGet(what) ==
  /\ held = Null
  /\ held' = Some([what |-> what, ref |-> root[what], seen |-> heap[root[what]]])
  /\ UNCHANGED <<heap, root>>
  /\ UNCHANGED <<pipeVars, exportVars, mirrorVars, parseVars, groupVars, shiftVars,
                 settingsVars, cacheVars, keyVars>>

\* setMapping(playlistId, mapping) (lines 300-315): the key is deleted from,
\* or assigned in, the object cached.mappings itself
setMapping(playlistId, mapping) ==
  /\ heap' = [heap EXCEPT ![root.mappings] =
                IF mapping = Null THEN Without(@, playlistId)
                ELSE MapSet(@, playlistId, mapping[1])]
  /\ UNCHANGED <<root, held>>
  /\ UNCHANGED <<pipeVars, exportVars, mirrorVars, parseVars, groupVars, shiftVars,
                 settingsVars, cacheVars, keyVars>>

\* bulkSetMappings(m) (lines 317-322): cached.mappings becomes a new object
bulkSetMappings(m) ==
  /\ Len(heap) < MaxObjs
  /\ heap' = Release(Append(heap, [x \in (DOMAIN heap[root.mappings]) \cup (DOMAIN m) |->
                                     IF x \in DOMAIN m THEN m[x] ELSE heap[root.mappings][x]]),
                     root.mappings)
  /\ root' = [root EXCEPT !.mappings = Len(heap) + 1]
  /\ UNCHANGED held
  /\ UNCHANGED <<pipeVars, exportVars, mirrorVars, parseVars, groupVars, shiftVars,
                 settingsVars, cacheVars, keyVars>>

\* upsertSource(src) (lines 261-276): the element of cached.sources is
\* assigned, or src is pushed on the array itself
upsertSource(src) ==
  /\ LET arr == heap[root.sources]
         idx == {i \in 1..Len(arr) : arr[i].id = src.id}
     IN heap' = [heap EXCEPT ![root.sources] =
                   IF idx # {} THEN [arr EXCEPT ![CHOOSE i \in idx : TRUE] = src]
                   ELSE Append(arr, src)]
  /\ UNCHANGED <<root, held>>
  /\ UNCHANGED <<pipeVars, exportVars, mirrorVars, parseVars, groupVars, shiftVars,
                 settingsVars, cacheVars, keyVars>>

\* deleteSource(id) (lines 278-293): cached.sources becomes the filtered
\* array; the mappings of the source are deleted from cached.mappings itself
deleteSource(id) ==
  /\ Len(heap) < MaxObjs
  /\ LET maps == heap[root.mappings]
         kept == {k \in DOMAIN maps : maps[k].sourceId # id}
     IN heap' = Release(Append([heap EXCEPT ![root.mappings] = [k \in kept |-> maps[k]]],
                               SelectSeq(heap[root.sources], LAMBDA s : s.id # id)),
                        root.sources)
  /\ root' = [root EXCEPT !.sources = Len(heap) + 1]
  /\ UNCHANGED held
  /\ UNCHANGED <<pipeVars, exportVars, mirrorVars, parseVars, groupVars, shiftVars,
                 settingsVars, cacheVars, keyVars>>

\* updateDefaults(partial) (lines 249-254): cached.defaults becomes a new
\* object
updateDefaults(partial) ==
  /\ Len(heap) < MaxObjs
  /\ heap' = Release(Append(heap, partial), root.defaults)
  /\ root' = [root EXCEPT !.defaults = Len(heap) + 1]
  /\ UNCHANGED held
  /\ UNCHANGED <<pipeVars, exportVars, mirrorVars, parseVars, groupVars, shiftVars,
                 settingsVars, cacheVars, keyVars>>

NextStore ==
  \/ \E what \in Getters : StoreGet(what)
  \/ \E p \in StoreIds, m \in {Null} \cup {Some(v) : v \in StoreMaps} : setMapping(p, m)
  \/ \E p \in StoreIds, v \in StoreMaps : bulkSetMappings(p :> v)
  \/ \E src \in StoreSrcs : upsertSource(src)
  \/ \E id \in {"s1", "s2"} : deleteSource(id)
  \/ \E partial \in StoreDefs : updateDefaults(partial)

-----------------------------------------------------------------------------
(* SpecKey: the schedule cache under the fingerprints of /api/epg and       *)
(* /epg.xml.gz, for one playlist channel whose mapping changes between      *)
(* requests; the URLs, their signatures, the playlist and the window are    *)
(* the same throughout (server.js)                                          *)

KKinds == {"epg", "gz"}
KMaps ==
  {[NoMapping EXCEPT !.sourceId = "s1", !.epgChannelId = eid, !.offsetMinutes = off] :
     eid \in {"", "X"}, off \in {0, 1}}
\* what the parse of the group returns for the channel
KList == <<[start |-> Some(3), stop |-> Some(4)]>>

\* the entry of maps for the channel in keyObj: /api/epg (line 510) lists
\* sourceId and epgChannelId; the export (line 960) adds offsetMinutes,
\* zoneId and shiftMode. A field that is not listed is Null.
keyMaps(kind, m) ==
  [sourceId |-> m.sourceId, epgChannelId |-> m.epgChannelId,
   offsetMinutes |-> IF kind = "epg" THEN Null ELSE Some(m.offsetMinutes),
   zoneId |-> IF kind = "epg" THEN Null ELSE Some(m.zoneId),
   shiftMode |-> IF kind = "epg" THEN Null
                 ELSE Some(IF m.shiftMode = "offset" THEN "offset" ELSE "wall")]

\* 'EPG_' + sha1hex(stableStringify(keyObj)) (lines 513, 961): equal objects
\* give equal keys, different objects different keys
cacheKey(kind, m) == [type |-> IF kind = "epg" THEN "" ELSE "export-gz", maps |-> keyMaps(kind, m)]

InitKey ==
  /\ kmap \in KMaps
  /\ kcache = {}
  /\ kans = Null

\* POST /api/mappings stores another mapping for the channel
KeySetMapping(m) ==
  /\ m # kmap
  /\ kmap' = m
  /\ UNCHANGED <<kcache, kans>>
  /\ UNCHANGED <<pipeVars, exportVars, mirrorVars, parseVars, groupVars, shiftVars,
                 settingsVars, cacheVars, storeVars>>

\* a request of the kind: getCache(cacheKey) serves the schedules stored
\* under the key (lines 514-530, 964-968); else the groups are parsed, the
\* offset of the mapping is applied in the merge and the schedules are
\* stored under the key (lines 540-560, 976-993)
KeyRequest(kind) ==
  LET k   == cacheKey(kind, kmap)
      hit == {e \in kcache : e.key = k}
  IN /\ IF hit # {}
        THEN /\ kans' = Some([kind |-> kind, map |-> kmap, cached |-> TRUE,
                              sched |-> (CHOOSE e \in hit : TRUE).sched])
             /\ kcache' = kcache
        ELSE LET sched == applyOffset(KList, kmap.offsetMinutes)
             IN /\ kans' = Some([kind |-> kind, map |-> kmap, cached |-> FALSE,
                                 sched |-> sched])
                /\ kcache' = kcache \cup {[key |-> k, sched |-> sched]}
     /\ UNCHANGED kmap
     /\ UNCHANGED <<pipeVars, exportVars, mirrorVars, parseVars, groupVars, shiftVars,
                    settingsVars, cacheVars, storeVars>>

\* the entries expire
KeyExpire ==
  /\ kcache # {}
  /\ kcache' = {}
  /\ UNCHANGED <<kmap, kans>>
  /\ UNCHANGED <<pipeVars, exportVars, mirrorVars, parseVars, groupVars, shiftVars,
                 settingsVars, cacheVars, storeVars>>

NextKey ==
  \/ \E m \in KMaps : KeySetMapping(m)
  \/ \E kind \in KKinds : KeyRequest(kind)
  \/ KeyExpire

IdleShift ==
  /\ tin = <<>>
  /\ tout = <<>>

\* the settings as installed: History retention (days), default 21
IdleSettings == defaults = [historyRetentionDays |-> 21]

IdleCache ==
  /\ cmem = <<>>
  /\ cdisk = <<>>
  /\ cnow = 0
  /\ csets = <<>>
  /\ cret = <<>>

IdleStore ==
  /\ heap = <<>>
  /\ root = <<>>
  /\ held = <<>>

IdleKey ==
  /\ kmap = NoMapping
  /\ kcache = {}
  /\ kans = <<>>

IdleOthers ==
  /\ IdleParse /\ IdleGroups /\ IdleShift /\ IdleSettings /\ IdleCache /\ IdleStore
  /\ IdleKey

InitSpecPipe == InitPipe /\ IdleExport /\ IdleMirror /\ IdleOthers
SpecPipe == InitSpecPipe /\ [][NextPipe]_vars

Init == InitExport /\ IdlePipe /\ IdleMirror /\ IdleOthers
Spec == Init /\ [][Next]_vars

InitSpecMirror == InitMirror /\ IdlePipe /\ IdleExport /\ IdleOthers
SpecMirror == InitSpecMirror /\ [][NextMirror]_vars

InitSpecPrune ==
  /\ InitPrune /\ IdlePipe /\ IdleExport /\ IdleParse /\ IdleGroups /\ IdleShift
  /\ IdleCache /\ IdleStore /\ IdleKey
SpecPrune == InitSpecPrune /\ [][NextPrune]_vars

InitSpecParse ==
  /\ InitParse /\ IdlePipe /\ IdleExport /\ IdleMirror /\ IdleGroups /\ IdleShift
  /\ IdleSettings /\ IdleCache /\ IdleStore /\ IdleKey
SpecParse == InitSpecParse /\ [][NextParse]_vars

InitSpecGroups ==
  /\ InitGroups /\ IdlePipe /\ IdleExport /\ IdleMirror /\ IdleParse /\ IdleShift
  /\ IdleSettings /\ IdleCache /\ IdleStore /\ IdleKey
SpecGroups == InitSpecGroups /\ [][NextGroups]_vars

InitSpecCache ==
  /\ InitCache /\ IdlePipe /\ IdleExport /\ IdleMirror /\ IdleParse /\ IdleGroups
  /\ IdleShift /\ IdleSettings /\ IdleStore /\ IdleKey
SpecCache == InitSpecCache /\ [][NextCache]_vars

InitSpecStore ==
  /\ InitStore /\ IdlePipe /\ IdleExport /\ IdleMirror /\ IdleParse /\ IdleGroups
  /\ IdleShift /\ IdleSettings /\ IdleCache /\ IdleKey
SpecStore == InitSpecStore /\ [][NextStore]_vars

InitSpecKey ==
  /\ InitKey /\ IdlePipe /\ IdleExport /\ IdleMirror /\ IdleParse /\ IdleGroups
  /\ IdleShift /\ IdleSettings /\ IdleCache /\ IdleStore
SpecKey == InitSpecKey /\ [][NextKey]_vars

\* SpecJobs: prewarm jobs alone, with progress. A job whose next step is
\* a continuation of its async function (the playlist is loaded, the mirrors
\* have answered, the file is opened, a chunk is flushed, 'finish' is
\* emitted) takes that step; failures and new POSTs need not happen.
JobStep(j) ==
  /\ j <= nprocs
  /\ \/ PrewarmPlaylist(j)
     \/ PrewarmMirrored(j)
     \/ PrewarmOpen(j)
     \/ WriteChunk(j)
     \/ PrewarmFinish(j)

NextJobs ==
  \/ \E full \in BOOLEAN : PrewarmPost(full)
  \/ \E j \in 1..nprocs : PrewarmPlaylist(j)
  \/ \E j \in 1..nprocs : PrewarmFails(j)
  \/ \E j \in 1..nprocs : PrewarmMirrored(j)
  \/ \E j \in 1..nprocs : PrewarmOpen(j)
  \/ \E j \in 1..nprocs : WriteChunk(j)
  \/ \E j \in 1..nprocs : PrewarmFinish(j)
  \/ \E j \in 1..nprocs : WriteError(j)

InitSpecJobs == InitExport /\ IdlePipe /\ IdleMirror /\ IdleOthers
SpecJobs ==
  /\ InitSpecJobs /\ [][NextJobs]_vars
  /\ \A j \in 1..MaxProcs : WF_vars(JobStep(j))

InitSpecShift ==
  /\ InitShift /\ IdlePipe /\ IdleExport /\ IdleMirror /\ IdleParse /\ IdleGroups
  /\ IdleSettings /\ IdleCache /\ IdleStore /\ IdleKey
SpecShift == InitSpecShift /\ [][NextShift]_vars

-----------------------------------------------------------------------------
(* Claims settled under SpecPipe *)

PDone == ppc = "done"
PWindowed == ~pcfg.full

\* a timestamp written with the numeric offset +0000
ZeroOffset(x) == x.k = "ts" /\ x.hz /\ x.z = 0

\* C4 (as claimed, for the timestamps the grammar matches): every start and
\* every stop attribute written by the gzip export, the plain XML export and
\* the prewarm build carries the numeric offset +0000.
C4_AllOffsetsZero ==
  PDone => \A i \in 1..Len(pout) :
             pout[i].p.start # Null =>
               /\ pout[i].start.k = "ts" => ZeroOffset(pout[i].start)
               /\ pout[i].stop.k = "ts" => ZeroOffset(pout[i].stop)

\* C5 (as claimed): in a windowed export the [start, stop) interval of every
\* written programme, as held in its start and stop fields, overlaps the
\* requested window.
C5_EmittedIntervalOverlaps ==
  (PDone /\ PWindowed) =>
     \A i \in 1..Len(pout) :
        overlaps(pout[i].p.start, pout[i].p.stop, pcfg.from, pcfg.to)

\* C5 (amended): in a windowed export the [start, stop) interval that every
\* written programme has in its feed (startXmltv, stopXmltv, before the
\* mapping's offset_minutes is applied) overlaps the requested window, for
\* programmes of the current mirror and of the snapshots.
C5_FeedIntervalOverlaps ==
  (PDone /\ PWindowed) =>
     \A i \in 1..Len(pout) :
        overlaps(xmltvTimeToIso(pout[i].p.startXmltv),
                 xmltvTimeToIso(pout[i].p.stopXmltv), pcfg.from, pcfg.to)

\* C5 witness: a windowed export that observed programmes outside the window
\* wrote a programme of the mirror file and one added by backfill.
C5_Witness ==
  /\ PDone /\ PWindowed
  /\ pnum > Len(pout)
  /\ \E i, j \in 1..Len(pout) :
        pout[i].p.origin = "mirror" /\ pout[j].p.origin = "snapshot"

\* C6 (as claimed): within a channel the written programmes are
\* non-decreasing in start_utc.
C6_SortedByStart ==
  PDone => \A i, j \in 1..Len(pout) :
             (i < j /\ pout[i].channel = pout[j].channel
              /\ pout[i].p.start # Null /\ pout[j].p.start # Null)
             => pout[i].p.start[1] <= pout[j].p.start[1]

\* C7 (as claimed, for the programmes whose start parses): no two programmes
\* written under one channel share the same raw start timestamp.
C7_NoDuplicateStartRaw ==
  PDone => \A i, j \in 1..Len(pout) :
             (i < j /\ pout[i].channel = pout[j].channel
              /\ pout[i].p.startXmltv.k = "ts")
             => pout[i].p.startXmltv # pout[j].p.startXmltv

-----------------------------------------------------------------------------
(* Claims settled under Spec *)

IsJob(j) == procs[j].type = "prewarm"
IsGz(j) == procs[j].type = "gz"
\* the job ran the export pipeline: it opened exports/<key>.xml.gz to write
Built(j) == procs[j].ino # 0

\* C1: of two prewarm requests with the same fingerprint that overlap in
\* time, at most one runs the export pipeline (the second attaches to the
\* first one's job).
C1_PipelineRunsOnce ==
  \A i, j \in 1..nprocs :
    (/\ IsJob(i) /\ IsJob(j) /\ i \in procs[j].live
     /\ procs[i].key = procs[j].key /\ procs[i].key # NoKey)
    => ~(Built(i) /\ Built(j))

\* C2: the file at exports/<fingerprint>.xml.gz is absent or a complete
\* export artifact, in every reachable state.
C2_ArtifactAbsentOrComplete ==
  \A k \in Keys :
    dirFinal[k] # 0 => inodes[dirFinal[k]] \in {Artifact("gz"), Artifact("prewarm")}

\* C3: two gzip export requests with the same fingerprint, the second
\* arriving after the first was answered, receive the same bytes.
C3_SameBytesForSameFingerprint ==
  \A i, j \in 1..nprocs :
    (/\ IsGz(i) /\ IsGz(j) /\ i \in procs[j].past
     /\ procs[j].pc = "done" /\ procs[i].key = procs[j].key)
    => procs[i].resp = procs[j].resp

C9_StatusSteps ==
  [][\A j \in 1..nprocs :
       IsJob(j) =>
         \/ procs'[j].status = procs[j].status
         \/ <<procs[j].status, procs'[j].status>> \in
              {<<InitialStatus, "running">>, <<"running", "done">>, <<"running", "error">>}]_vars

-----------------------------------------------------------------------------
(* Claims settled under SpecMirror *)

\* C10: for either extension, the current mirror file of the URL is absent
\* or holds the complete body of one upstream 2xx response.
C10_CurrentAbsentOrComplete ==
  \A g \in BOOLEAN :
    mdir.cur[g] # 0 => mnodes[mdir.cur[g]] \in Bodies

-----------------------------------------------------------------------------
(* Claims on the mirror (SpecMirror) *)

\* a mirrorFetch call between its revalidation request and its metadata write
InSequence(m) == mprocs[m].pc \in {"req", "retry", "fresh", "open", "write"}

\* C11: for one URL, the sequence revalidate, rotate, write the temporary
\* file, rename, write the metadata of one mirrorFetch call never interleaves
\* with that of another call: at most one call of the URL is inside it.
C11_OneFetchInSequence ==
  Cardinality({m \in 1..Len(mprocs) : InSequence(m)}) <= 1

\* C12: after a successful mirrorFetch that received a 2xx for a URL that
\* already had a current file, with no other call of the URL in flight, the
\* file listSnapshots(url)[0] names holds the content the current file had
\* before that fetch.
C12_NewestSnapshotIsPrevious ==
  \A m \in 1..Len(mprocs) :
    (/\ mprocs[m].pc = "done"
     /\ mprocs[m].res.status = 200
     /\ ~mprocs[m].ovl
     /\ \E g \in BOOLEAN : mprocs[m].before[g] # Null)
    => \E g \in BOOLEAN : mprocs[m].before[g] # Null /\ mprocs[m].top = mprocs[m].before[g]

\* C13: a snapshot, once created, is never overwritten or modified: a
\* snapshot name that exists before and after a step names the same file with
\* the same content.
C13_SnapshotsImmutable ==
  [][\A x \in mdir.snaps : \A y \in mdir'.snaps :
       (x.stamp = y.stamp /\ x.gz = y.gz)
       => (x.ino = y.ino /\ mnodes'[y.ino] = mnodes[x.ino])]_vars

\* C14: a call that got a 304 while the current file was missing issues a new
\* unconditional GET and, on a 2xx, leaves that response's body as the
\* non-empty current file; the empty body of the 304 is never written.
C14_RefetchWritesBody ==
  \A m \in 1..Len(mprocs) :
    /\ (mprocs[m].pc \in {"open", "write"} \/ mprocs[m].wrote # Null)
       => (mprocs[m].res.status = 200 /\ BodyOf(mprocs[m].res.v) # <<>>)
    /\ (mprocs[m].fresh /\ mprocs[m].pc = "done")
       => mprocs[m].wrote = Some(BodyOf(mprocs[m].res.v))

\* what an export answers when mirrorFetch of its EPG URL returned or threw:
\* Promise.all over the mirror jobs rejects and the handler's catch answers
\* 500 (server.js 956, 1083)
ExportAnswer(m) == IF mprocs[m].pc = "failed" THEN 500 ELSE 200

\* C17: when the upstream fetch fails (a response that is not 2xx, after the
\* single retry of a 5xx) and a mirror file of the URL exists, the export
\* goes on with that file and succeeds.
C17_ExistingMirrorServes ==
  \A m \in 1..Len(mprocs) :
    (mprocs[m].pc = "failed" /\ mprocs[m].res.status # 200 /\ mprocs[m].had)
    => ExportAnswer(m) # 500

-----------------------------------------------------------------------------
(* Claims on the parser (SpecParse) *)

\* the programme elements closed so far that overlap the window
FedInWindow ==
  {sfed[i].e : i \in {i \in 1..Len(sfed) :
     /\ sfed[i].tag = "programme"
     /\ overlaps(xmltvTimeToIso(sfed[i].e.start), xmltvTimeToIso(sfed[i].e.stop),
                 SWindow.from, SWindow.to)}}

\* the programme e is in the schedules returned
Returned(e) ==
  \E i \in 1..Len(sst.sched) :
    /\ sst.sched[i].id = e.channel
    /\ \E j \in 1..Len(sst.sched[i].list) : sst.sched[i].list[j].startXmltv = e.start

\* C15: with allowedIds absent or empty the parse accepts the programmes of
\* every channel: every programme of the file inside the window is in the
\* result.
C15_KeepAllAcceptsEveryChannel ==
  (spc = "end" /\ keepAll(sopts.allowed)) => \A e \in FedInWindow : Returned(e)

\* C16: with limitProgrammes 0 the result holds no programme, whatever the
\* input, and the channels seen are returned.
C16_LimitZeroNoProgrammes ==
  (spc = "end" /\ sopts.limit = Limit(0))
  => /\ sst.sched = <<>>
     /\ \A i \in 1..Len(sfed) : sfed[i].tag = "channel" => sfed[i].id \in sst.channels

-----------------------------------------------------------------------------
(* Claims on the merge of groups (SpecGroups) *)

\* the programmes of the answer that were read from the file at url
FromUrl(url) ==
  UNION {{<<gout[1].sched[i].id, gout[1].sched[i].list[j].startXmltv>> :
            j \in {k \in 1..Len(gout[1].sched[i].list) :
                     gout[1].sched[i].list[k].origin[1] = url}} :
         i \in 1..Len(gout[1].sched)}

\* the programmes the parse of group g returned, under their playlist ids
ParsedBy(g) ==
  UNION {{<<GGroups[g].idMap[norm(gres[g].st.sched[i].id)],
            gres[g].st.sched[i].list[j].startXmltv>> :
            j \in 1..Len(gres[g].st.sched[i].list)} :
         i \in 1..Len(gres[g].st.sched)}

\* C18: when the parse of one group fails while the others succeed, the
\* request succeeds, the failed group contributes nothing and the programmes
\* of the other groups are in the answer; in the gzip export, the XML export,
\* prewarm and /api/epg alike.
C18_FailedGroupSkipped ==
  (/\ gpc = "done"
   /\ \E g \in 1..Len(GGroups) : gres[g].pc = "rejected"
   /\ \E g \in 1..Len(GGroups) : gres[g].pc = "fulfilled")
  => /\ gout[1].ok
     /\ \A g \in 1..Len(GGroups) :
          /\ gres[g].pc = "rejected" => FromUrl(GGroups[g].url) = {}
          /\ gres[g].pc = "fulfilled" => ParsedBy(g) \subseteq FromUrl(GGroups[g].url)

-----------------------------------------------------------------------------
(* Claims on the time shift (SpecShift, SpecPipe) *)

\* the numeric offset a timestamp carries; none is read as 0
OffsetOf(x) == IF x.hz THEN x.z ELSE 0

\* the call was in offset mode on a well-formed timestamp and has returned
OffsetModeDone == tout # Null /\ tin.shiftMode = "offset" /\ tin.orig.k = "ts"

\* C19 as stated: in offset mode, whether or not a zone is set, the output
\* has the wall digits of the input and the offset o + k clamped to 14 hours.
C19_OffsetModeKeepsDigits ==
  OffsetModeDone
  => /\ tout[1].k = "ts"
     /\ tout[1].w = tin.orig.w
     /\ OffsetOf(tout[1]) =
          Max(0 - ClampUnits, Min(ClampUnits, OffsetOf(tin.orig) + tin.addOff))

\* C19: in offset mode with no zone set on the mapping, the output has the
\* wall digits of the input and the offset o + k clamped to 14 hours.
C19_OffsetModeKeepsDigitsNoZone ==
  (OffsetModeDone /\ tin.zoneId = "")
  => /\ tout[1].k = "ts"
     /\ tout[1].w = tin.orig.w
     /\ OffsetOf(tout[1]) =
          Max(0 - ClampUnits, Min(ClampUnits, OffsetOf(tin.orig) + tin.addOff))

\* an offset at the lower clamp moved further down, with no zone
C19_Witness ==
  /\ OffsetModeDone /\ tin.zoneId = ""
  /\ OffsetOf(tin.orig) + tin.addOff < 0 - ClampUnits
  /\ tout[1].w = tin.orig.w
  /\ OffsetOf(tout[1]) = 0 - ClampUnits

\* the local wall time in zone z of the instant t moved by k
WallIn(z, t, k) == t + k + ZoneOffset(z, t + k)

\* the mapping of the run is in wall mode with a zone
PWallZone == pcfg.map.zoneId # "" /\ pcfg.map.shiftMode \in {"", "wall"}

\* C20: in wall mode with zone Z and offset_minutes k, the digits of every
\* written start and stop are the local wall time in Z of the feed's instant
\* moved by k once, in the gzip export, the prewarm build and the XML export
\* alike.
C20_WallShiftAppliedOnce ==
  (PDone /\ PWallZone) =>
     \A i \in 1..Len(pout) :
        /\ pout[i].p.startXmltv.k = "ts"
           => pout[i].start.w = WallIn(pcfg.map.zoneId,
                                       xmltvTimeToIso(pout[i].p.startXmltv)[1],
                                       pcfg.map.offsetMinutes)
        /\ pout[i].p.stopXmltv.k = "ts"
           => pout[i].stop.w = WallIn(pcfg.map.zoneId,
                                      xmltvTimeToIso(pout[i].p.stopXmltv)[1],
                                      pcfg.map.offsetMinutes)

\* C29: a URL never has both current files, <key>.xmltv.gz and <key>.xml, in
\* the mirror directory, also after the upstream changed between gzip and
\* plain.
C29_OneCurrentFile ==
  ~(mdir.cur[TRUE] # 0 /\ mdir.cur[FALSE] # 0)

C28_RotationFailureAborts ==
  \A m \in 1..Len(mprocs) :
     mprocs[m].rotFailed =>
        /\ mprocs[m].pc = "failed"
        /\ mdir.cur[mprocs[m].res.gz] # 0
        /\ CurrentContent[mprocs[m].res.gz] = mprocs[m].before[mprocs[m].res.gz]

\* C30: every programme in the schedules the parser builds and returns has a
\* start that parsed (start_utc is not null), in a windowed parse and in a
\* parse with no_window, with or without a parseable stop.
C30_EveryStartParsed ==
  \A i \in 1..Len(pparse.sched) :
     \A k \in 1..Len(pparse.sched[i].list) :
        pparse.sched[i].list[k].start # Null

\* the step in which a mirrorFetch completes its download: renameSync(tmp,
\* target), the metadata and pruneSnapshots(url)
DownloadCompletes ==
  \E m \in 1..Len(mprocs) : mprocs[m].pc = "write" /\ mprocs'[m].pc = "done"

\* the place of snapshot x among the snapshots S, newest first, from 1
SnapRank(x, S) == Cardinality({y \in S : y.stamp >= x.stamp})

\* snapshot x was saved more than the given number of days ago
OlderThan(x, days) == x.stamp < mclock - days * Day

\* C26: the prune of a completed download deletes the snapshots older than
\* the retention of 21 days and those past the 40th newest, and no other
\* snapshot; at most 40 snapshots remain and none of them is older than the
\* retention.
C26_PruneExactly ==
  [][DownloadCompletes =>
       /\ mdir'.snaps = {x \in mdir.snaps :
                           ~OlderThan(x, 21) /\ SnapRank(x, mdir.snaps) <= KeepMax}
       /\ Cardinality(mdir'.snaps) <= KeepMax
       /\ \A x \in mdir'.snaps : ~OlderThan(x, 21)]_vars

\* C27: the prune of a completed download applies the stored
\* historyRetentionDays: of the snapshots that are not past the 40th place
\* (whether or not the current files are counted), it deletes exactly those
\* older than that many days.
C27_SettingIsRetention ==
  [][DownloadCompletes =>
       \A x \in mdir.snaps :
          SnapRank(x, mdir.snaps) + 2 <= KeepMax =>
             (x \in mdir'.snaps <=> ~OlderThan(x, defaults.historyRetentionDays))]_vars

\* C24: a prewarm job takes the short cut to done only when
\* exports/<fingerprint>.xml.gz exists with a size above 100 bytes; with a
\* file of 100 bytes or less it rebuilds first.
C24_ShortCutOnlyIfGood ==
  [][\A j \in 1..nprocs :
       (procs[j].type = "prewarm" /\ procs[j].pc = "mirror" /\ procs'[j].pc = "done")
          => FileSize(inodes[dirFinal[procs'[j].key]]) > MinGoodSize]_vars

\* C22: a gzip export request that found a valid artifact for its fingerprint
\* and streams it has stream-parsed no source.
C22_StreamedWithoutParse ==
  \A g \in 1..nprocs :
     (procs[g].type = "gz" /\ procs[g].pc = "stream") => ~procs[g].parsed

\* C21: once a prewarm job is done, a gzip export request made with the
\* job's export_url computes the job's fingerprint and is answered by
\* streaming the artifact, for a windowed and for a full prewarm.
C21_PrewarmedExportStreams ==
  [][\A g, j \in 1..nprocs :
       (/\ procs[j].type = "prewarm" /\ procs[j].pc = "done"
        /\ procs[g].type = "gz" /\ procs[g].full = procs[j].urlFull
        /\ procs[g].pc = "prepare" /\ procs'[g].pc \in {"stream", "unlink"})
       => /\ procs'[g].key = procs[j].key
          /\ procs'[g].pc = "stream"]_vars

-----------------------------------------------------------------------------
(* Claims on the assignment of playlist channels to feeds (SpecGroups) *)

\* the enabled sources the mapping of playlist channel p names
MappedSource(p) ==
  {i \in 1..Len(GSources) :
     GSources[i].id = GMappings[p].sourceId /\ GSources[i].enabled}
ServedBySource(p) == GMappings[p].sourceId # "" /\ MappedSource(p) # {}

\* the feed p is assigned to: the URL of its mapped enabled source, else the
\* default EPG URL
FeedOf(p) ==
  IF ServedBySource(p) THEN GSources[CHOOSE i \in MappedSource(p) : TRUE].url
  ELSE "u1"

\* the mapping's epg_channel_id, else p
MappedId(p) ==
  IF GMappings[p].epgChannelId # "" THEN GMappings[p].epgChannelId ELSE p

\* every programme of the answer, under its playlist id, comes from the feed
\* of the id and carried an EPG channel id that normalizes to eid(p)
EmittedFromOwnFeed(eid(_)) ==
  (gpc = "done" /\ gout[1].ok) =>
     \A i \in 1..Len(gout[1].sched) :
        LET p == gout[1].sched[i].id
        IN /\ p \in {GPlaylist[n] : n \in 1..Len(GPlaylist)}
           /\ \A k \in 1..Len(gout[1].sched[i].list) :
                 /\ gout[1].sched[i].list[k].origin[1] = FeedOf(p)
                 /\ norm(gout[1].sched[i].list[k].origin[2]) = norm(eid(p))

\* C23 (as claimed): with a non-empty playlist every programme emitted under
\* playlist id p was read from the feed p is assigned to and carried an EPG
\* channel id that normalizes to the mapping's epg_channel_id, else to p.
C23_OwnFeedMappedId == EmittedFromOwnFeed(MappedId)

\* the id the programmes of p carry: the mapping's epg_channel_id, else p, on
\* the mapped source; p itself on the default EPG
PlannedId(p) == IF ServedBySource(p) THEN MappedId(p) ELSE p

\* C23 (amended): with a non-empty playlist every programme emitted under
\* playlist id p was read from the feed p is assigned to and carried an EPG
\* channel id that normalizes to the mapping's epg_channel_id, else p, when p
\* is served by its mapped enabled source, and to p itself when p is served
\* by the default EPG URL.
C23_OwnFeedPlannedId == EmittedFromOwnFeed(PlannedId)

\* C23 witness: B's mapping names EPG channel X and a source that is not
\* enabled; the answer holds under B a programme that the default feed
\* carried as b, and under A one of A
C23_Witness ==
  /\ gpc = "done" /\ gout[1].ok
  /\ gcfg.map.epgChannelId = "X" /\ ~ServedBySource("B")
  /\ \E i \in 1..Len(gout[1].sched) :
        /\ gout[1].sched[i].id = "B"
        /\ \E k \in 1..Len(gout[1].sched[i].list) :
              gout[1].sched[i].list[k].origin = <<"u1", "b">>

-----------------------------------------------------------------------------
(* Claims on the channel metadata (SpecParse) *)

\* the channel elements of id closed so far that have a value in field f
FedWith(id, f) ==
  {i \in 1..Len(sfed) : sfed[i].tag = "channel" /\ sfed[i].id = id /\ sfed[i][f] # ""}

\* C31: when a channel id occurs several times, its display name and its
\* icon are each the value of the first occurrence, in document order, that
\* has one; a later occurrence never replaces a value already set.
C31_FirstNonEmptyWins ==
  \A id \in sst.channels : \A f \in {"name", "icon"} :
     FedWith(id, f) # {} =>
        sst.chmeta[id][f] = sfed[CHOOSE i \in FedWith(id, f) :
                                   \A j \in FedWith(id, f) : i <= j][f]

-----------------------------------------------------------------------------
(* Claims on the order in which the parses complete (SpecGroups) *)

\* the group whose file the programmes of entry i of the answer were read from
GroupOfEntry(i) ==
  CHOOSE g \in 1..Len(GGroups) : GGroups[g].url = gout[1].sched[i].list[1].origin[1]

-----------------------------------------------------------------------------
(* Claims on the artifact cache (SpecCache) *)

\* the setCache call whose data the last getCache returned
StoredBy == csets[cret[1].data[1]]

\* C33: getCache returns data only if fewer than ttl milliseconds have
\* passed since the setCache call that stored that data, ttl being the
\* larger of 1000 and the ttl requested; this holds when the data is served
\* from memory, from the disk file, or from memory after a promotion.
C33_ReturnedOnlyWithinTtl ==
  (cret # Null /\ cret[1].data # Null) =>
     cret[1].at - StoredBy.at < Max(MinTtl, StoredBy.req)

\* data stored with no ttl requested was served from the disk file, some
\* time after it was stored, and now sits promoted in memory
C33_Witness ==
  /\ cret # Null /\ cret[1].data # Null
  /\ cret[1].from = "disk"
  /\ StoredBy.req < MinTtl
  /\ cret[1].at > StoredBy.at
  /\ cmem # Null /\ cmem[1].data = cret[1].data[1]
  /\ cnow > cret[1].at

-----------------------------------------------------------------------------
(* Claims on the settings store (SpecStore) *)

\* C34: a value returned by getMappings, getDefaults or listSources is a
\* snapshot: no later setMapping, bulkSetMappings, deleteSource,
\* upsertSource or updateDefaults changes it, so the request that holds it
\* keeps seeing the state it read.
C34_ReturnedValueIsSnapshot ==
  held # Null => heap[held[1].ref] = held[1].seen

-----------------------------------------------------------------------------
(* Claims on backfill without history (SpecPipe) *)

\* the programmes of the schedules that backfill added
Backfilled ==
  UNION {{<<psched[i].id, psched[i].list[j].startXmltv>> :
            j \in {k \in 1..Len(psched[i].list) : psched[i].list[k].origin = "snapshot"}} :
         i \in 1..Len(psched)}

\* C35: for a group whose URL was never rotated (the current mirror file
\* exists, no snapshot file does) backfill adds no programme to any
\* channel's schedule, whatever the mapping, a non-zero offset included.
C35_NoHistoryNoBackfill ==
  (pcfg.cur /\ ppc \in {"render", "done"}) => Backfilled = {}

-----------------------------------------------------------------------------
(* Claims on the fingerprint (SpecKey) *)

\* C36: the fingerprint covers every mapping field that affects the cached
\* schedules: requests that differ in the channel's offset_minutes have
\* different fingerprints, so the schedules of an answer, cached or not,
\* are those computed under the offset the mapping has at the request.
C36_AnswerUnderOwnOffset ==
  kans # Null => kans[1].sched = applyOffset(KList, kans[1].map.offsetMinutes)

-----------------------------------------------------------------------------
(* Claims on playlist channels that share an EPG channel (SpecGroups) *)

\* the start attributes of the programmes the parse of the feed at url
\* returned for the EPG channels that normalize like eid
ParsedFor(url, eid) ==
  UNION {UNION {{gres[g].st.sched[i].list[j].startXmltv :
                   j \in 1..Len(gres[g].st.sched[i].list)} :
                i \in {n \in 1..Len(gres[g].st.sched) :
                         norm(gres[g].st.sched[n].id) = norm(eid)}} :
         g \in {h \in 1..Len(GGroups) :
                  GGroups[h].url = url /\ gres[h].pc = "fulfilled"}}

\* the start attributes of the programmes the answer holds under p
AnsweredFor(p) ==
  UNION {{gout[1].sched[i].list[j].startXmltv : j \in 1..Len(gout[1].sched[i].list)} :
         i \in {n \in 1..Len(gout[1].sched) : gout[1].sched[n].id = p}}

\* C37: when two distinct playlist channels are assigned to the same group
\* with EPG ids that normalize to the same value, each of them receives the
\* programmes of that EPG channel in the answer.
C37_SharedEpgChannelServesBoth ==
  (gpc = "done" /\ gout[1].ok) =>
     \A p, q \in {"A", "B"} :
        (p # q /\ FeedOf(p) = FeedOf(q) /\ norm(PlannedId(p)) = norm(PlannedId(q)))
        => ParsedFor(FeedOf(p), PlannedId(p)) \subseteq AnsweredFor(p)

-----------------------------------------------------------------------------
(* Claims on the progress of prewarm jobs (SpecJobs) *)

\* job j has reached a final status
JobSettled(j) == j <= nprocs /\ procs[j].status \in {"done", "error"}

\* C38: every prewarm job eventually reaches the status done or error, also
\* when the playlist fetch, a mirror fetch or the write of the artifact file
\* fails; no job stays in its initial or running status forever.
C38_EveryJobSettles ==
  \A j \in 1..MaxProcs : (j <= nprocs) ~> JobSettled(j)

-----------------------------------------------------------------------------
(* Claims on the two writers of the artifact (SpecPipe) *)

\* C39: for one fingerprint, hence the same schedules and mappings, the
\* document a prewarm job writes to the artifact equals the document an
\* on-demand gzip export request writes.
C39_PrewarmBytesEqualExportBytes ==
  ppc \in {"render", "done"} =>
     renderAll("prewarm", PPlaylist, 1, psched, PMappings)
       = renderAll("gz", PPlaylist, 1, psched, PMappings)

-----------------------------------------------------------------------------
(* Claims on a download that breaks off (SpecMirror) *)

\* the last call was alone, got a 2xx response and ended while the body was
\* not yet complete in the temporary file
BodyBrokeOff(m) ==
  /\ m = Len(mprocs)
  /\ ~mprocs[m].ovl
  /\ mprocs[m].pc \in {"failed", "killed"}
  /\ mprocs[m].res.status = 200
  /\ mprocs[m].ino # 0
  /\ mprocs[m].pos < Len(BodyOf(mprocs[m].res.v))

\* C40: when the download of the body fails after a 2xx response, before the
\* temporary file is complete, mirrorFetch fails and the file that was
\* current before the call is still at the current path with the content it
\* had.
C40_BrokenDownloadKeepsCurrent ==
  \A m \in 1..Len(mprocs) :
     (BodyBrokeOff(m) /\ mprocs[m].before[mprocs[m].res.gz] # Null)
     => /\ mprocs[m].pc = "failed"
        /\ CurrentContent[mprocs[m].res.gz] = mprocs[m].before[mprocs[m].res.gz]

====
